---- MODULE Spec2Model ----
(***************************************************************************)
(* Model of BookSage.                                                      *)
(*                                                                         *)
(* Spec: the ingestion saga: the HTTP ingest handler, the saga             *)
(* orchestrator (StartOrResumeIngestion, RunIngestionSaga), the relational *)
(* saga store (documents, ingest_sagas, saga_steps) and the vector and     *)
(* graph stores it writes to.  Every request is a process; one action is   *)
(* one access to a shared store together with the local computation that   *)
(* follows it.                                                             *)
(*                                                                         *)
(* SpecBreaker: the circuit breaker (Execute, tryCall) with concurrent     *)
(* callers and a clock.                                                    *)
(*                                                                         *)
(* SpecScout: the scout worker (Run, processBook) with its state store,    *)
(* its state file and the catalog it polls, over successive invocations.   *)
(*                                                                         *)
(* SpecSave: the scout state store's Save, write by write, with a process  *)
(* that can stop at any point.                                             *)
(*                                                                         *)
(* SpecFusion: FusionRetriever.Retrieve with its engine goroutines and     *)
(* performWeightedRRF.  SpecSkyline: SkylineRanker.Rank.                   *)
(*                                                                         *)
(* SpecBatcher: Batcher.GenerateEmbeddingsBatched with its concurrent      *)
(* batches.  SpecGenerator: Generator.GenerateAnswer and its event stream. *)
(*                                                                         *)
(* SpecRetry: RetryTransport.RoundTrip, attempt by attempt.  SpecOpds:     *)
(* OPDSAdapter.FetchNewBooks walking the pages of a catalog.               *)
(*                                                                         *)
(* Each specification leaves the variables of the others unchanged.        *)
(***************************************************************************)
EXTENDS Integers, Naturals, Sequences, FiniteSets, TLC

\* ---- bounds ----
MaxReqs == 2
MaxHashes == 2
NumChunks == 2
MaxCallers == 2
MaxFailThreshold == 2
MaxOpenTimeout == 2
MaxTime == 4
MaxItems == 2
MaxTS == 2
MaxConcurrency == 2
MaxRuns == 2
EncBlocks == 2
MaxDocs == 2
MaxContents == 2
MaxResults == 3
MaxScore == 2
MaxTexts == 3
MaxBatchSize == 2
MaxTextKinds == 2
MaxSubQueries == 2
MaxHits == 2
MaxMaxRetries == 3
MaxURLs == 2

Reqs == 1..MaxReqs
Hashes == 1..MaxHashes
Callers == 1..MaxCallers
Items == 1..MaxItems

\* ---- models.SagaStatus / models.IngestStep ----
SagaStatusPending == 0
SagaStatusProcessing == 1
SagaStatusCompleted == 2
SagaStatusFailed == 3

StepParsing == 0
StepChunking == 1
StepEmbedding == 2
StepIndexing == 3

ErrConcurrentUpdate == "concurrent update detected: version mismatch"
ErrUniqueHash == "UNIQUE constraint failed: documents.file_hash"

StateClosed == 0
StateOpen == 1
StateHalfOpen == 2

ErrCircuitOpen == "circuit breaker is open"

VARIABLES
  documents,     \* table documents: sequence of rows, id = index
  ingest_sagas,  \* table ingest_sagas: sequence of rows, id = index
  saga_steps,    \* table saga_steps: set of rows
  vectorPoints,  \* points of the vector collection: [doc_id, chunk]
  graphNodes,    \* nodes of the graph store: [doc_id, node] (node 0 = Document root)
  criticalLog,   \* doc ids named by a "[Saga - CRITICAL ALERT]" log record
  pc,            \* position of each request
  fileHash,      \* docModel.FileHash of each request
  docID,         \* doc.ID / existingDoc.ID held by each request
  saga,          \* the *models.IngestSaga each request holds (ID, Version)
  result         \* what each request ended with

vars == <<documents, ingest_sagas, saga_steps, vectorPoints, graphNodes,
          criticalLog, pc, fileHash, docID, saga, result>>

\* The circuit breaker that wraps an external call site, and its callers.
VARIABLES
  cb,            \* the CircuitBreaker: state, failCount, failThreshold, openTimeout, openedAt
  clock,          \* the clock read by time.Now and time.Since
  cbPc,          \* position of each caller: "idle", or "fn" while the wrapped function runs
  cbResult,      \* what the caller's last Execute returned
  probe,         \* the caller's running call is the one that moved Open to HalfOpen
  streak         \* number of calls that failed since the last call that succeeded

breakerVars == <<cb, clock, cbPc, cbResult, probe, streak>>

\* The scout worker: its configuration, the catalog it polls, its state store
\* and the position of one invocation of Run.
VARIABLES
  cfg,             \* config.Config: WorkerSinceTimestamp, WorkerConcurrency, WorkerBatchSize
  feed,            \* the catalog: entry time of each item in feed order, 0 = entry without a time
  file,            \* the state file: Watermark, ProcessedIDs
  state,           \* FileStateStore.state of the running process
  runPc,           \* "exited" (no worker process) or "loop" (Run is at step 5)
  since,           \* Run's local since
  maxTimestamp,    \* Run's local maxTimestamp
  fetched,         \* the books FetchNewBooks returned to this Run
  actionableBooks, \* the books of the batch that are not launched yet
  inFlight,        \* the books whose goroutine holds a semaphore token
  downloaded,      \* ids whose DownloadBookContent has succeeded
  submitted,       \* ids whose Send has succeeded
  sends,           \* number of calls of dest.Send so far
  runs,            \* number of invocations of Run that have returned
  cleanRuns,       \* the runs that fetched the feed, left no fetched book unprocessed and saved
  outcome          \* how the last Run returned

scoutVars == <<cfg, feed, file, state, runPc, since, maxTimestamp, fetched,
               actionableBooks, inFlight, downloaded, submitted, sends, runs,
               cleanRuns, outcome>>

\* The scout state store's Save, write by write, on the file system.
VARIABLES
  fs,              \* the files at filepath and filepath + ".tmp": absent, or data and blocks written
  savePc,          \* position of the worker process inside Save, or "stopped"
  before           \* what filepath held when the current Save began

saveVars == <<fs, savePc, before>>

\* One call of FusionRetriever.Retrieve.
VARIABLES
  engineOut,       \* what each engine's search returns: ok or not, and its result list
  weights,         \* the EngineWeights of the classified intent, in hundredths
  completed,       \* the engines whose goroutine has returned
  allResults,      \* Retrieve's allResults
  groupErr,        \* the first non-nil error a goroutine returned to the errgroup
  retPc,           \* "wait" until g.Wait returns, then "done"
  retErr,          \* the error Retrieve returns
  fused            \* the list Retrieve returns

fusionVars == <<engineOut, weights, completed, allResults, groupErr, retPc, retErr,
                fused>>

\* One call of SkylineRanker.Rank.
VARIABLES
  rankInput,       \* the results Rank is called with
  skyline,         \* the list Rank returns
  rankPc           \* "call" before Rank has run, then "done"

skylineVars == <<rankInput, skyline, rankPc>>

\* One call of Batcher.GenerateEmbeddingsBatched.
VARIABLES
  texts,           \* the input texts
  batchSize,       \* the batcher's batchSize
  embResults,      \* the results slice the batch goroutines fill in
  totalTokens,     \* the approximate token count
  errCh,           \* the buffered error channel
  finished,        \* the batches whose goroutine has returned, in that order, each with its outcome
  batPc,           \* "wait" until wg.Wait returns, then "done"
  batRet           \* what GenerateEmbeddingsBatched returns

batcherVars == <<texts, batchSize, embResults, totalTokens, errCh, finished, batPc,
                 batRet>>

\* One query: Generator.GenerateAnswer and the handler that ranges over its
\* event stream.
VARIABLES
  hasRetriever,    \* g.retriever is not nil
  genPc,           \* position of GenerateAnswer
  subQueries,      \* the number of sub-queries decomposeQuery returned
  sqIdx,           \* the sub-query the retrieval loop is at
  contextChunks,   \* len(allContextChunks)
  events,          \* the types of the events sent on the stream, in order
  closes,          \* how many times the stream has been closed
  lateSend,        \* an event was sent on the stream after it was closed
  genCalls,        \* the calls of the heavy LLM's Generate so far
  lastGen,         \* the outcome of the latest of them
  firstSupport,    \* what EvaluateGeneration returned for the first draft
  handlerPc        \* the handler: in its range loop, or returned

generatorVars == <<hasRetriever, genPc, subQueries, sqIdx, contextChunks, events,
                   closes, lateSend, genCalls, lastGen, firstSupport, handlerPc>>

\* One call of RetryTransport.RoundTrip.
VARIABLES
  hasBody,         \* req.Body != nil
  maxRetries,      \* t.MaxRetries
  rtI,             \* the loop variable i
  sent,            \* what each call of base.RoundTrip made so far returned
  rtPc,            \* "loop" inside the loop, then "returned"
  rtRet            \* the outcome RoundTrip returns

retryVars == <<hasBody, maxRetries, rtI, sent, rtPc, rtRet>>

\* One call of OPDSAdapter.FetchNewBooks on a catalog of linked pages.
VARIABLES
  catNext,         \* the "next" link of each page: a URL, or 0 for none
  catSubs,         \* the subsection and catalog links of each page
  queue,           \* the queue of (url, depth) pairs
  visitedURLs,     \* the URLs marked visited
  processedPages,  \* the pages fetched so far
  fetchLog,        \* the URLs fetchPage was called with, in order
  skipped,         \* the queue entries dropped because their URL was visited
  opdsPc           \* "loop" inside the loop, then "returned"

opdsVars == <<catNext, catSubs, queue, visitedURLs, processedPages, fetchLog,
              skipped, opdsPc>>

outsideSaga == <<breakerVars, scoutVars, saveVars, fusionVars, skylineVars,
                 batcherVars, generatorVars, retryVars, opdsVars>>

outsideBreaker == <<vars, scoutVars, saveVars, fusionVars, skylineVars,
                    batcherVars, generatorVars, retryVars, opdsVars>>

outsideScout == <<vars, breakerVars, saveVars, fusionVars, skylineVars,
                  batcherVars, generatorVars, retryVars, opdsVars>>

outsideSave == <<vars, breakerVars, cfg, feed, file, runPc, since, maxTimestamp,
                 fetched, actionableBooks, inFlight, downloaded, submitted, sends,
                 runs, cleanRuns, fusionVars, skylineVars, batcherVars, generatorVars, retryVars, opdsVars, outcome>>

outsideFusion == <<vars, breakerVars, scoutVars, saveVars, skylineVars,
                   batcherVars, generatorVars, retryVars, opdsVars>>

outsideSkyline == <<vars, breakerVars, scoutVars, saveVars, fusionVars,
                    batcherVars, generatorVars, retryVars, opdsVars>>

outsideBatcher == <<vars, breakerVars, scoutVars, saveVars, fusionVars,
                    skylineVars, generatorVars, retryVars, opdsVars>>

outsideGenerator == <<vars, breakerVars, scoutVars, saveVars, fusionVars,
                      skylineVars, batcherVars, retryVars, opdsVars>>

outsideRetry == <<vars, breakerVars, scoutVars, saveVars, fusionVars,
                  skylineVars, batcherVars, generatorVars, opdsVars>>

outsideOpds == <<vars, breakerVars, scoutVars, saveVars, fusionVars,
                 skylineVars, batcherVars, generatorVars, retryVars>>

NoSaga == [ID |-> 0, DocumentID |-> 0, Version |-> 0]

\* The parser returns NumChunks chunks for a file; chunk i of document d has
\* id "<d>-chunk-<i>" and its graph node has id "<d>-node-<i>".
Chunks(h) == 1..NumChunks

\* ---- saga store: documents ----

GetDocumentByHash(rows, hash) ==
  IF \E i \in DOMAIN rows : rows[i].file_hash = hash
  THEN CHOOSE i \in DOMAIN rows : rows[i].file_hash = hash
  ELSE 0

CreateDocumentUnchecked(rows, hash) ==
  [rows |-> Append(rows, [file_hash |-> hash]), id |-> Len(rows) + 1, err |-> ""]

\* INSERT INTO documents; file_hash is UNIQUE NOT NULL
CreateDocument(rows, hash) ==
  IF \E i \in DOMAIN rows : rows[i].file_hash = hash
  THEN [rows |-> rows, id |-> 0, err |-> ErrUniqueHash]
  ELSE [rows |-> Append(rows, [file_hash |-> hash]), id |-> Len(rows) + 1, err |-> ""]

\* ---- saga store: ingest_sagas ----

\* time.Now().Unix() at an insert.  created_at is read only by
\* GetLatestSagaByDocumentID, which compares the sagas of one document: the
\* stamp of a new saga is not before the newest saga of its document, and
\* possibly within the same second.
NowChoices(rows, documentID) ==
  LET stamps == {rows[i].created_at : i \in {j \in DOMAIN rows :
                                               rows[j].document_id = documentID}}
  IN IF stamps = {} THEN {1}
     ELSE LET last == CHOOSE t \in stamps : \A u \in stamps : u <= t
          IN {last, last + 1}

CreateSaga(rows, documentID, status, currentStep, now) ==
  [rows |-> Append(rows, [document_id |-> documentID, status |-> status,
                          version |-> 1, current_step |-> currentStep,
                          error_message |-> "", created_at |-> now]),
   id |-> Len(rows) + 1]

\* ORDER BY created_at DESC LIMIT 1: the rows the query may return (rows of one
\* second are returned in an order the store does not define).
GetLatestSagaByDocumentID(rows, documentID) ==
  {i \in DOMAIN rows :
     /\ rows[i].document_id = documentID
     /\ \A j \in DOMAIN rows :
          rows[j].document_id = documentID => rows[j].created_at <= rows[i].created_at}

UpdateSagaStatusUnversioned(rows, sagaID, currentVersion, status, currentStep, errorMsg) ==
  IF sagaID \in DOMAIN rows
  THEN [rows |-> [rows EXCEPT ![sagaID] =
                    [@ EXCEPT !.status = status, !.version = @ + 1,
                              !.current_step = currentStep,
                              !.error_message = errorMsg]],
        err |-> ""]
  ELSE [rows |-> rows, err |-> ErrConcurrentUpdate]

\* UPDATE ingest_sagas SET ..., version = version + 1 WHERE id = ? AND version = ?
UpdateSagaStatus(rows, sagaID, currentVersion, status, currentStep, errorMsg) ==
  IF sagaID \in DOMAIN rows /\ rows[sagaID].version = currentVersion
  THEN [rows |-> [rows EXCEPT ![sagaID] =
                    [@ EXCEPT !.status = status, !.version = @ + 1,
                              !.current_step = currentStep,
                              !.error_message = errorMsg]],
        err |-> ""]
  ELSE [rows |-> rows, err |-> ErrConcurrentUpdate]

\* ---- saga store: saga_steps ----

\* The id of a step row is its identity only; the row a run inserts for a step
\* is named by the run and the step.
StepRowID(r, name) == 4 * r + name

\* step.ID == 0: INSERT INTO saga_steps, else UPDATE saga_steps ... WHERE id = ?
UpsertSagaStep(rows, stepID, fresh, sagaID, name, status, errorLog) ==
  IF stepID = 0
  THEN rows \cup {[id |-> fresh, saga_id |-> sagaID, name |-> name,
                   status |-> status, error_log |-> errorLog]}
  ELSE {IF row.id = stepID
        THEN [row EXCEPT !.status = status, !.error_log = errorLog]
        ELSE row : row \in rows}

\* ---- vector store and graph store ----

PointsOf(points, doc) == {p \in points : p.doc_id = doc}

\* the chunk id string "<docID>-chunk-<i>"
ChunkID(doc, i) == <<doc, i>>

\* The first 8 bytes of the SHA-256 of the chunk id: equal keys give equal
\* ids, and distinct keys of the model give distinct ids.
deterministicID(key) == key[1] * (NumChunks + 1) + key[2]

\* a point id taken from the size of the collection instead of the chunk id
InsertChunksFreshIDs(points, doc, chunks) ==
  points \cup {[id |-> 1000 + Cardinality(points) * (NumChunks + 1) + c,
                doc_id |-> doc, chunk |-> c] : c \in chunks}

\* Upsert of one point per chunk: id = deterministicID(chunk id), payload
\* doc_id = docID; a point with the same id is replaced
InsertChunks(points, doc, chunks) ==
  LET new == {[id |-> deterministicID(ChunkID(doc, c)), doc_id |-> doc, chunk |-> c] :
                c \in chunks}
  IN {p \in points : \A n \in new : n.id # p.id} \cup new

\* Delete with the filter doc_id = docID
DeleteDocument(points, doc) == points \ PointsOf(points, doc)

DocumentRoot(doc) == [doc_id |-> doc, node |-> 0]

\* MERGE of the Document root, then MERGE of one node per graph node
InsertNodesAndEdges(nodes, doc, chunks) ==
  nodes \cup {DocumentRoot(doc)} \cup {[doc_id |-> doc, node |-> c] : c \in chunks}

\* ---- circuit breaker ----

\* NewCircuitBreaker: Closed, no failure counted.  openedAt is Go's zero
\* time; it is read only while the breaker is Open, after tryCall has set it.
NewCircuitBreaker(failThreshold, openTimeout) ==
  [state |-> StateClosed, failCount |-> 0, failThreshold |-> failThreshold,
   openTimeout |-> openTimeout, openedAt |-> 0]

\* time.Since(cb.openedAt) > cb.openTimeout
TimeoutElapsedAlways(b, t) == TRUE

TimeoutElapsed(b, t) == t - b.openedAt > b.openTimeout

\* The locked part of tryCall, after fn has returned err (failed) or nil.
tryCallNoReset(b, failed, t) ==
  IF failed
  THEN IF b.failCount + 1 >= b.failThreshold
       THEN [b EXCEPT !.failCount = @ + 1, !.state = StateOpen, !.openedAt = t]
       ELSE [b EXCEPT !.failCount = @ + 1]
  ELSE [b EXCEPT !.state = StateClosed]

tryCall(b, failed, t) ==
  IF failed
  THEN IF b.failCount + 1 >= b.failThreshold
       THEN [b EXCEPT !.failCount = @ + 1, !.state = StateOpen, !.openedAt = t]
       ELSE [b EXCEPT !.failCount = @ + 1]
  ELSE [b EXCEPT !.failCount = 0, !.state = StateClosed]

\* ---- scout: state store, source and worker steps ----

\* NewFileStateStore on a path that holds no file yet.
NewFileStateStore == [Watermark |-> 0, ProcessedIDs |-> {}]

IsProcessedNever(st, bookID) == FALSE

IsProcessed(st, bookID) == bookID \in st.ProcessedIDs

MarkProcessed(st, bookID) == [st EXCEPT !.ProcessedIDs = @ \cup {bookID}]

UpdateWatermarkUnchecked(st, timestamp) == [st EXCEPT !.Watermark = timestamp]

UpdateWatermark(st, timestamp) ==
  IF timestamp > st.Watermark THEN [st EXCEPT !.Watermark = timestamp] ELSE st

\* time.Now() during the run that follows n finished runs: later than every
\* entry time of the catalog and later in each run.
Now(n) == MaxTS + 1 + n

\* fetchPage over the catalog: entries with a time at or before
\* lastCheckTimestamp are skipped, an entry without a time gets AddedAt = now.
RECURSIVE fetchPage(_, _, _, _)
fetchPage(entries, i, lastCheckTimestamp, t) ==
  IF i > Len(entries) THEN <<>>
  ELSE LET rest == fetchPage(entries, i + 1, lastCheckTimestamp, t)
       IN IF entries[i] # 0 /\ entries[i] <= lastCheckTimestamp
          THEN rest
          ELSE <<[ID |-> i, AddedAt |-> IF entries[i] = 0 THEN t ELSE entries[i]]>> \o rest

\* FetchNewBooks: a page that cannot be fetched is logged and contributes no book.
FetchNewBooks(entries, lastCheckTimestamp, t, pageOk) ==
  IF pageOk THEN fetchPage(entries, 1, lastCheckTimestamp, t) ELSE <<>>

\* Run step 1: the configured timestamp if it is non-zero, else the stored one.
SinceOf(c, st) ==
  IF c.WorkerSinceTimestamp = 0 THEN st.Watermark ELSE c.WorkerSinceTimestamp

\* Run step 3: drop the books whose id is already processed.
RECURSIVE FilterBooks(_, _)
FilterBooks(books, st) ==
  IF books = <<>> THEN <<>>
  ELSE IF IsProcessed(st, Head(books).ID)
       THEN FilterBooks(Tail(books), st)
       ELSE <<Head(books)>> \o FilterBooks(Tail(books), st)

\* Run step 4: the batch size limit.
LimitBatch(books, c) ==
  IF c.WorkerBatchSize > 0 /\ Len(books) > c.WorkerBatchSize
  THEN SubSeq(books, 1, c.WorkerBatchSize)
  ELSE books

\* sem <- struct{}{} goes through while fewer than cap(sem) tokens are held.
semAlwaysFree(held, c) == TRUE

semFree(held, c) == Cardinality(held) < c.WorkerConcurrency

\* The goroutine's update of the state store after processBook returned.
taskDoneAlwaysMarks(st, b, failed) == MarkProcessed(st, b.ID)

taskDone(st, b, failed) == IF failed THEN st ELSE MarkProcessed(st, b.ID)

\* ---- fusion retriever: weighted reciprocal rank fusion ----

Engines == {"vector", "graph", "tree"}

Contents == 1..MaxContents

\* NewRouteOperator: the weights of each intent, in hundredths.
RouteWeights ==
  [summary      |-> [graph |-> 20, tree |-> 70, vector |-> 10],
   definition   |-> [graph |-> 20, tree |-> 10, vector |-> 70],
   relationship |-> [graph |-> 70, tree |-> 10, vector |-> 20],
   comparison   |-> [graph |-> 40, tree |-> 40, vector |-> 20],
   general      |-> [graph |-> 34, tree |-> 33, vector |-> 33]]

Intents == DOMAIN RouteWeights

rrfK == 60

\* Scores are kept exact: a score is a number of units of
\* 1 / (100 * (rrfK + 1) * ... * (rrfK + MaxDocs)).
RECURSIVE RRFDen(_)
RRFDen(n) == IF n = 0 THEN 1 ELSE (rrfK + n) * RRFDen(n - 1)

\* float32(1.0/(k+float64(rank+1))) * weight, for the 1-based rank.
rrfScore(w, source, rank) ==
  (RRFDen(MaxDocs) \div (rrfK + rank)) * (IF w[source] = 0 THEN 33 ELSE w[source])

\* rrfScores[key] += rrfScore
setScore(old, contribution) == contribution

addScore(old, contribution) == old + contribution

\* The sequences that list every element of S once: the orders in which a Go
\* map with these keys can be ranged over.
Orders(S) ==
  {o \in [1..Cardinality(S) -> S] : \A i, j \in DOMAIN o : i # j => o[i] # o[j]}

RECURSIVE SelectSource(_, _)
SelectSource(results, source) ==
  IF results = <<>> THEN <<>>
  ELSE IF Head(results).Source = source
       THEN <<Head(results)>> \o SelectSource(Tail(results), source)
       ELSE SelectSource(Tail(results), source)

\* The results in the order the scoring loop visits them, each with its
\* contribution: source by source in map order, each group by rank.
RECURSIVE RanksOf(_, _, _, _)
RanksOf(group, w, source, rank) ==
  IF rank > Len(group) THEN <<>>
  ELSE <<[r |-> group[rank], rrfScore |-> rrfScore(w, source, rank)]>>
       \o RanksOf(group, w, source, rank + 1)

RECURSIVE Visits(_, _, _)
Visits(results, w, srcOrder) ==
  IF srcOrder = <<>> THEN <<>>
  ELSE RanksOf(SelectSource(results, Head(srcOrder)), w, Head(srcOrder), 1)
       \o Visits(results, w, Tail(srcOrder))

\* rrfScores[key] and rrfContent[key] after the scoring loop.
RECURSIVE rrfScores(_, _)
rrfScores(visits, key) ==
  IF visits = <<>> THEN 0
  ELSE LET v == visits[Len(visits)]
           old == rrfScores(SubSeq(visits, 1, Len(visits) - 1), key)
       IN IF v.r.Content = key THEN addScore(old, v.rrfScore) ELSE old

rrfContent(visits, key) ==
  visits[CHOOSE i \in DOMAIN visits :
           /\ visits[i].r.Content = key
           /\ \A j \in 1..(i - 1) : visits[j].r.Content # key].r

\* The "Sort descending" loops: for i, for j > i, swap when fused[j] is larger.
Swap(f, i, j) == [f EXCEPT ![i] = f[j], ![j] = f[i]]

RECURSIVE SortDescending(_, _, _)
SortDescending(f, i, j) ==
  IF i > Len(f) THEN f
  ELSE IF j > Len(f) THEN SortDescending(f, i + 1, i + 2)
  ELSE SortDescending(IF f[j].Score > f[i].Score THEN Swap(f, i, j) ELSE f, i, j + 1)

\* The fused list before sorting: the keys of rrfContent in map order.
RECURSIVE Collect(_, _)
Collect(visits, keyOrder) ==
  IF keyOrder = <<>> THEN <<>>
  ELSE (IF \E i \in DOMAIN visits : visits[i].r.Content = Head(keyOrder)
        THEN <<[rrfContent(visits, Head(keyOrder))
                 EXCEPT !.Score = rrfScores(visits, Head(keyOrder))]>>
        ELSE <<>>)
       \o Collect(visits, Tail(keyOrder))

\* performWeightedRRF, with the order in which sourceGroups and rrfContent
\* are ranged over.
performWeightedRRF(results, w, srcOrder, keyOrder) ==
  IF Len(results) = 0 THEN results
  ELSE SortDescending(Collect(Visits(results, w, srcOrder), keyOrder), 1, 2)

\* What an engine's goroutine returns to the errgroup: nil, also when its
\* search failed.
goroutineReturnPropagates(out) == IF out.ok THEN "nil" ELSE "search failed"

goroutineReturn(out) == "nil"

\* The result lists an engine can return: up to MaxDocs results, each with an
\* id of its own.  performWeightedRRF does not read the engines' scores.
RECURSIVE DocLists(_, _)
DocLists(source, n) ==
  IF n = 0 THEN {<<>>}
  ELSE LET shorter == DocLists(source, n - 1)
       IN shorter \cup
          {l \o <<[ID |-> <<source, Len(l) + 1>>, Content |-> c, Score |-> 1,
                    Source |-> source]>> : l \in {x \in shorter : Len(x) = n - 1}, c \in Contents}

\* Retrieve has classified the intent and dispatched the engines.
FusionInit(w, vector, graph) ==
  /\ engineOut = [e \in Engines |->
                    IF e = "vector" THEN vector
                    ELSE IF e = "graph" THEN graph
                    ELSE [ok |-> TRUE, docs |-> <<>>]]
  /\ weights = w
  /\ completed = {}
  /\ allResults = <<>>
  /\ groupErr = "nil"
  /\ retPc = "wait"
  /\ retErr = ""
  /\ fused = <<>>

FusionIdle ==
  FusionInit(RouteWeights.general, [ok |-> FALSE, docs |-> <<>>],
             [ok |-> FALSE, docs |-> <<>>])

\* ---- skyline ranker ----

\* The scores a result can carry, in tenths, and the sources it can name.
ScoreLevels == 0..MaxScore

Sources == {"vector", "graph", "tree"}

\* The two axes of Rank's enrichedResult, each times 100: the score, raised
\* by the factor 1.2 for a vector result, and 0.8 for a graph result, else 0.5.
VectorScore(res) == IF res.Source = "vector" THEN 12 * res.Score ELSE 10 * res.Score

GraphScore(res) == IF res.Source = "graph" THEN 80 ELSE 50

dominatedOrEqual(enriched, i) ==
  \E j \in DOMAIN enriched :
    /\ i # j
    /\ VectorScore(enriched[j]) >= VectorScore(enriched[i])
    /\ GraphScore(enriched[j]) >= GraphScore(enriched[i])

dominatedNever(enriched, i) == FALSE

\* Result i is dominated: another result is larger on both axes.
dominated(enriched, i) ==
  \E j \in DOMAIN enriched :
    /\ i # j
    /\ VectorScore(enriched[j]) > VectorScore(enriched[i])
    /\ GraphScore(enriched[j]) > GraphScore(enriched[i])

\* The skyline filter: the results that are not dominated, in input order.
RECURSIVE SkylineFilter(_, _)
SkylineFilter(enriched, i) ==
  IF i > Len(enriched) THEN <<>>
  ELSE (IF dominated(enriched, i) THEN <<>> ELSE <<enriched[i]>>)
         \o SkylineFilter(enriched, i + 1)

\* sort.Slice by Score, descending, on a slice of fewer than 12 elements: an
\* insertion sort, which moves an element left while its score is larger than
\* its predecessor's.
RECURSIVE InsertByScore(_, _)
InsertByScore(sorted, x) ==
  IF sorted = <<>> THEN <<x>>
  ELSE IF x.Score > sorted[Len(sorted)].Score
       THEN Append(InsertByScore(SubSeq(sorted, 1, Len(sorted) - 1), x),
                   sorted[Len(sorted)])
       ELSE Append(sorted, x)

RECURSIVE SortSlice(_)
SortSlice(list) ==
  IF list = <<>> THEN <<>>
  ELSE InsertByScore(SortSlice(SubSeq(list, 1, Len(list) - 1)), list[Len(list)])

Rank(list) ==
  IF Len(list) <= 1 THEN list ELSE SortSlice(SkylineFilter(list, 1))

\* The lists of n results Rank can be called with, each result with an id of
\* its own.
ResultLists(n) ==
  {[i \in 1..n |-> [ID |-> i, Score |-> f[i][1], Source |-> f[i][2]]] :
     f \in [1..n -> ScoreLevels \X Sources]}

SkylineInit(list) ==
  /\ rankInput = list
  /\ skyline = <<>>
  /\ rankPc = "call"

SkylineIdle == SkylineInit(<<>>)

\* ---- embedding batcher ----

TextKinds == 1..MaxTextKinds

\* A slot of the results slice that no goroutine has filled in.
NilResult == [Text |-> 0, Dense |-> 0]

\* The vector the embedding client computes for a text.
EmbedVector(text) == 100 + text

\* What Embed can do with a batch: return one vector per text, return an
\* error, or return one vector too few.
EmbedOutcomes == {"ok", "error", "short"}

numBatches(totalItems, size) == (totalItems + size - 1) \div size

batchStart(i, size) == i * size

batchEnd(i, size, totalItems) ==
  IF batchStart(i, size) + size > totalItems THEN totalItems
  ELSE batchStart(i, size) + size

\* texts[start:end] of a zero-based slice.
Slice(list, start, end) == SubSeq(list, start + 1, end)

\* The embeddings Embed returns for pts when it returns no error.
clientEmbed(pts, kind) ==
  LET n == IF kind = "short" THEN Len(pts) - 1 ELSE Len(pts)
  IN [j \in 1..n |-> EmbedVector(pts[j])]

resultIndexNoOffset(startIdx, j) == j

\* The slot of results a goroutine writes embedding j of its batch to.
resultIndex(startIdx, j) == startIdx + j

\* The reassembly loop of one batch, on a zero-based slice held as a sequence.
Reassemble(res, pts, startIdx, embeddings) ==
  [x \in DOMAIN res |->
     IF \E j \in 0..(Len(embeddings) - 1) : resultIndex(startIdx, j) + 1 = x
     THEN LET j == CHOOSE j \in 0..(Len(embeddings) - 1) : resultIndex(startIdx, j) + 1 = x
          IN [Text |-> pts[j + 1], Dense |-> embeddings[j + 1]]
     ELSE res[x]]

firstErrorIgnored(ch) == "nil"

\* The loop over the closed error channel: the first error in it, if any.
firstError(ch) == IF ch = <<>> THEN "nil" ELSE ch[1]

BatchError(bIdx) == <<"batch failed", bIdx>>

NoReturn == [results |-> <<>>, tokens |-> 0, err |-> ""]

BatcherInit(input, size) ==
  /\ texts = input
  /\ batchSize = size
  /\ embResults = [x \in 1..Len(input) |-> NilResult]
  /\ totalTokens = 0
  /\ errCh = <<>>
  /\ finished = <<>>
  /\ batPc = "wait"
  /\ batRet = NoReturn

BatcherIdle == BatcherInit(<<>>, 1)

\* ---- agentic generator ----

FullySupported == "fully_supported"
PartiallySupported == "partially_supported"
NoSupport == "no_support"

SupportLevels == {FullySupported, PartiallySupported, NoSupport}

\* What the retrieval critique says of the results of one sub-query: a
\* verdict (relevant or not) for each of up to MaxHits results.
Verdicts == UNION {[1..n -> BOOLEAN] : n \in 0..MaxHits}

\* The events of the critique loop over the results of one sub-query: a
\* source event for a relevant result, a reasoning event for a filtered one.
CritiqueEvents(verdicts) ==
  [x \in DOMAIN verdicts |-> IF verdicts[x] THEN "source" ELSE "reasoning"]

Relevant(verdicts) == Cardinality({x \in DOMAIN verdicts : verdicts[x]})

noClose(n) == n

\* The deferred close(stream), run when GenerateAnswer returns.
deferClose(n) == n + 1

afterErrorFallsThrough == "answer"

\* After an error event GenerateAnswer returns.
afterError == "return"

afterRegenerateCritique == "critique"

\* After a regeneration that succeeded GenerateAnswer goes on to the answer.
afterRegenerate == "answer"

GeneratorInit(retriever) ==
  /\ hasRetriever = retriever
  /\ genPc = "start"
  /\ subQueries = 0
  /\ sqIdx = 0
  /\ contextChunks = 0
  /\ events = <<>>
  /\ closes = 0
  /\ lateSend = FALSE
  /\ genCalls = 0
  /\ lastGen = "none"
  /\ firstSupport = "none"
  /\ handlerPc = "range"

GeneratorIdle == GeneratorInit(FALSE)

\* ---- retry transport ----

StatusTooManyRequests == 429

\* What base.RoundTrip can return: a network error, or a response with one
\* of these status codes.
NetworkError == 0

Outcomes == {NetworkError, 200, 404, StatusTooManyRequests, 500, 599}

\* The attempt is retried: a network error, 429 or 5xx.
Retryable(resp) ==
  \/ resp = NetworkError
  \/ resp = StatusTooManyRequests
  \/ (resp >= 500 /\ resp <= 599)

RetryInit(body, retries) ==
  /\ hasBody = body
  /\ maxRetries = retries
  /\ rtI = 0
  /\ sent = <<>>
  /\ rtPc = "loop"
  /\ rtRet = 0 - 1

RetryIdle == RetryInit(FALSE, 0)

\* ---- OPDS source: catalog traversal ----

URLs == 1..MaxURLs

catalogURL == 1

maxDepth == 3

maxPages == 50

isVisitedNever(visited, u) == FALSE

\* visitedURLs[url]
isVisited(visited, u) == u \in visited

\* The set S as a sequence in ascending order: the links of a page in the
\* order of the feed.
RECURSIVE Ascending(_)
Ascending(S) ==
  IF S = {} THEN <<>>
  ELSE LET least == CHOOSE x \in S : \A y \in S : x <= y
       IN <<least>> \o Ascending(S \ {least})

\* The queue entries a fetched page adds: its next link at the same depth,
\* and below maxDepth its subsections one level down, each unless visited.
Enqueued(nextURL, subs, depth, visited) ==
  (IF nextURL # 0 /\ ~isVisited(visited, nextURL)
   THEN <<[url |-> nextURL, depth |-> depth]>> ELSE <<>>)
  \o (IF depth < maxDepth
      THEN [x \in 1..Len(Ascending({u \in subs : ~isVisited(visited, u)})) |->
              [url |-> Ascending({u \in subs : ~isVisited(visited, u)})[x],
               depth |-> depth + 1]]
      ELSE <<>>)

\* A catalog of more than maxPages pages, each linking to the next.
PagedNext == [u \in 1..(maxPages + 1) |-> u + 1]

OpdsInit(nextOf, subsOf) ==
  /\ catNext = nextOf
  /\ catSubs = subsOf
  /\ queue = <<[url |-> catalogURL, depth |-> 0]>>
  /\ visitedURLs = {}
  /\ processedPages = 0
  /\ fetchLog = <<>>
  /\ skipped = 0
  /\ opdsPc = "loop"

OpdsIdle == OpdsInit([u \in URLs |-> 0], [u \in URLs |-> {}])

\* ---- initial state ----

\* The ingestion service with empty stores, before any upload.
SagaInit ==
  /\ documents = <<>>
  /\ ingest_sagas = <<>>
  /\ saga_steps = {}
  /\ vectorPoints = {}
  /\ graphNodes = {}
  /\ criticalLog = {}
  /\ pc = [r \in Reqs |-> "idle"]
  /\ fileHash = [r \in Reqs |-> 0]
  /\ docID = [r \in Reqs |-> 0]
  /\ saga = [r \in Reqs |-> NoSaga]
  /\ result = [r \in Reqs |-> ""]

\* A breaker as NewCircuitBreaker returns it, with no caller inside Execute.
BreakerInit(failThreshold, openTimeout) ==
  /\ cb = NewCircuitBreaker(failThreshold, openTimeout)
  /\ clock = 0
  /\ cbPc = [c \in Callers |-> "idle"]
  /\ cbResult = [c \in Callers |-> ""]
  /\ probe = [c \in Callers |-> FALSE]
  /\ streak = 0

\* A validated configuration, a catalog and a state store with no file yet;
\* no worker process is running.
ScoutInit(c, entries) ==
  /\ cfg = c
  /\ feed = entries
  /\ file = NewFileStateStore
  /\ state = NewFileStateStore
  /\ runPc = "exited"
  /\ since = 0
  /\ maxTimestamp = 0
  /\ fetched = <<>>
  /\ actionableBooks = <<>>
  /\ inFlight = {}
  /\ downloaded = {}
  /\ submitted = {}
  /\ sends = 0
  /\ runs = 0
  /\ cleanRuns = {}
  /\ outcome = ""

\* The state file and its temporary file: filepath and filepath + ".tmp".
filepath == "scout_state.json"

tmpFileInPlace(path) == path

tmpFile(path) == path \o ".tmp"

Absent == [data |-> NewFileStateStore, blocks |-> 0 - 1]

\* encoder.Encode(s.state) writes EncBlocks blocks; a file is complete, and
\* load can decode it, when it holds them all.
Encode(st, blocks) == [data |-> st, blocks |-> blocks]

Complete(f) == f.blocks = EncBlocks

\* No state file yet and no Save in progress.
SaveInit ==
  /\ fs = [path \in {filepath, tmpFile(filepath)} |-> Absent]
  /\ savePc = "idle"
  /\ before = Absent

\* The components that take no step in a specification, as constructed.
BreakerIdle == BreakerInit(1, 1)

ScoutIdle ==
  ScoutInit([WorkerSinceTimestamp |-> 0, WorkerConcurrency |-> 1,
             WorkerBatchSize |-> 0], <<>>)

Init ==
  /\ SagaInit
  /\ BreakerIdle
  /\ ScoutIdle
  /\ SaveInit
  /\ FusionIdle
  /\ SkylineIdle
  /\ BatcherIdle
  /\ GeneratorIdle
  /\ RetryIdle
  /\ OpdsIdle

stores == <<documents, ingest_sagas, saga_steps, vectorPoints, graphNodes, criticalLog>>

\* ---- handleIngest: the upload arrives, its SHA-256 is computed, and ----
\* ---- StartOrResumeIngestion: 1. Check if document exists by hash     ----

\* Requests are identical and content hashes are opaque: requests are numbered
\* in the order they arrive and hashes in the order they are first uploaded.
Arrived == {q \in Reqs : pc[q] # "idle"}

Upload(r, h) ==
  /\ pc[r] = "idle"
  /\ \A q \in Reqs : q < r => q \in Arrived
  /\ h <= Cardinality({fileHash[q] : q \in Arrived}) + 1
  /\ fileHash' = [fileHash EXCEPT ![r] = h]
  /\ LET existing == GetDocumentByHash(documents, h)
     IN /\ docID' = [docID EXCEPT ![r] = existing]
        /\ pc' = [pc EXCEPT ![r] = IF existing # 0 THEN "getSaga" ELSE "createDoc"]
  /\ UNCHANGED <<stores, saga, result>>
  /\ UNCHANGED outsideSaga

RefusesFailed(row) == row.status = SagaStatusFailed

\* what StartOrResumeIngestion does with the saga it found
Refuses(row) == row.status = SagaStatusCompleted

\* Document exists, check for existing saga
StartGetSaga(r) ==
  /\ pc[r] = "getSaga"
  /\ LET latest == GetLatestSagaByDocumentID(ingest_sagas, docID[r])
     IN IF latest = {}
        THEN \* Doc exists but no saga? Create one.
             /\ pc' = [pc EXCEPT ![r] = "createSaga"]
             /\ UNCHANGED <<saga, result>>
        ELSE \E i \in latest :
               IF Refuses(ingest_sagas[i])
               THEN /\ result' = [result EXCEPT ![r] = "AlreadyIngested"]
                    /\ pc' = [pc EXCEPT ![r] = "done"]
                    /\ UNCHANGED saga
               ELSE \* Return existing saga to resume
                    /\ saga' = [saga EXCEPT ![r] =
                                  [ID |-> i, DocumentID |-> ingest_sagas[i].document_id,
                                   Version |-> ingest_sagas[i].version]]
                    /\ pc' = [pc EXCEPT ![r] = "parse"]
                    /\ UNCHANGED result
  /\ UNCHANGED <<stores, fileHash, docID>>
  /\ UNCHANGED outsideSaga

\* New document
StartCreateDocument(r) ==
  /\ pc[r] = "createDoc"
  /\ LET res == CreateDocument(documents, fileHash[r])
     IN IF res.err # ""
        THEN /\ result' = [result EXCEPT ![r] = "CreateDocumentFailed"]
             /\ pc' = [pc EXCEPT ![r] = "done"]
             /\ UNCHANGED <<documents, docID>>
        ELSE /\ documents' = res.rows
             /\ docID' = [docID EXCEPT ![r] = res.id]
             /\ pc' = [pc EXCEPT ![r] = "createSaga"]
             /\ UNCHANGED result
  /\ UNCHANGED <<ingest_sagas, saga_steps, vectorPoints, graphNodes, criticalLog,
                 fileHash, saga>>
  /\ UNCHANGED outsideSaga

\* Create new saga
StartCreateSaga(r) ==
  /\ pc[r] = "createSaga"
  /\ \E now \in NowChoices(ingest_sagas, docID[r]) :
       LET res == CreateSaga(ingest_sagas, docID[r], SagaStatusPending, StepParsing, now)
       IN /\ ingest_sagas' = res.rows
          /\ saga' = [saga EXCEPT ![r] =
                        [ID |-> res.id, DocumentID |-> docID[r], Version |-> 1]]
  /\ pc' = [pc EXCEPT ![r] = "parse"]
  /\ UNCHANGED <<documents, saga_steps, vectorPoints, graphNodes, criticalLog,
                 fileHash, docID, result>>
  /\ UNCHANGED outsideSaga

\* ---- handleIngest: parser stream, then the asynchronous job ----

\* The file is streamed to the parser worker; on failure the handler answers
\* 500 and returns, on success it starts the goroutine and answers 202.
Parse(r, ok) ==
  /\ pc[r] = "parse"
  /\ IF ok
     THEN /\ pc' = [pc EXCEPT ![r] = "embed"]
          /\ UNCHANGED result
     ELSE /\ pc' = [pc EXCEPT ![r] = "done"]
          /\ result' = [result EXCEPT ![r] = "ParseFailed"]
  /\ UNCHANGED <<stores, fileHash, docID, saga>>
  /\ UNCHANGED outsideSaga

\* The goroutine calls GenerateEmbeddingsBatched; on failure it logs and returns.
Embed(r, ok) ==
  /\ pc[r] = "embed"
  /\ IF ok
     THEN /\ pc' = [pc EXCEPT ![r] = "begin"]
          /\ UNCHANGED result
     ELSE /\ pc' = [pc EXCEPT ![r] = "done"]
          /\ result' = [result EXCEPT ![r] = "EmbedFailed"]
  /\ UNCHANGED <<stores, fileHash, docID, saga>>
  /\ UNCHANGED outsideSaga

\* ---- RunIngestionSaga ----

beginAbortsNever(err) == FALSE

\* if err := UpdateSagaStatus(...); err != nil { return err }
beginAborts(err) == err # ""

\* Update to PROCESSING, then open the Embedding step row
RunBegin(r) ==
  /\ pc[r] = "begin"
  /\ LET upd == UpdateSagaStatus(ingest_sagas, saga[r].ID, saga[r].Version,
                                 SagaStatusProcessing, StepEmbedding, "")
     IN IF beginAborts(upd.err)
        THEN /\ result' = [result EXCEPT ![r] = "ConcurrentUpdate"]
             /\ pc' = [pc EXCEPT ![r] = "done"]
             /\ UNCHANGED <<ingest_sagas, saga_steps, saga>>
        ELSE /\ ingest_sagas' = upd.rows
             /\ saga' = [saga EXCEPT ![r].Version = @ + 1]
             /\ saga_steps' = UpsertSagaStep(saga_steps, 0, StepRowID(r, StepEmbedding),
                                             saga[r].ID, StepEmbedding,
                                             SagaStatusProcessing, "")
             /\ pc' = [pc EXCEPT ![r] = "insertChunks"]
             /\ UNCHANGED result
  /\ UNCHANGED <<documents, vectorPoints, graphNodes, criticalLog, fileHash, docID>>
  /\ UNCHANGED outsideSaga

\* Step Embedding: vectorStore.InsertChunks; on success the step row is closed
\* and the Indexing step row is opened
RunInsertChunks(r, ok) ==
  /\ pc[r] = "insertChunks"
  /\ IF ok
     THEN LET closed == UpsertSagaStep(saga_steps, StepRowID(r, StepEmbedding), 0,
                                       saga[r].ID, StepEmbedding,
                                       SagaStatusCompleted, "")
          IN /\ vectorPoints' = InsertChunks(vectorPoints, saga[r].DocumentID,
                                             Chunks(fileHash[r]))
             /\ saga_steps' = UpsertSagaStep(closed, 0, StepRowID(r, StepIndexing),
                                             saga[r].ID, StepIndexing,
                                             SagaStatusProcessing, "")
             /\ pc' = [pc EXCEPT ![r] = "insertGraph"]
     ELSE /\ pc' = [pc EXCEPT ![r] = "failEmbedding"]
          /\ UNCHANGED <<vectorPoints, saga_steps>>
  /\ UNCHANGED <<documents, ingest_sagas, graphNodes, criticalLog, fileHash, docID,
                 saga, result>>
  /\ UNCHANGED outsideSaga

\* the vector insert failed: mark the saga and the step Failed, return the error
RunFailEmbedding(r) ==
  /\ pc[r] = "failEmbedding"
  /\ ingest_sagas' = UpdateSagaStatus(ingest_sagas, saga[r].ID, saga[r].Version,
                                      SagaStatusFailed, StepEmbedding,
                                      "qdrant error").rows
  /\ saga_steps' = UpsertSagaStep(saga_steps, StepRowID(r, StepEmbedding), 0,
                                  saga[r].ID, StepEmbedding,
                                  SagaStatusFailed, "qdrant error")
  /\ result' = [result EXCEPT ![r] = "VectorInsertionFailed"]
  /\ pc' = [pc EXCEPT ![r] = "done"]
  /\ UNCHANGED <<documents, vectorPoints, graphNodes, criticalLog, fileHash, docID,
                 saga>>
  /\ UNCHANGED outsideSaga

\* Step Indexing: RAPTOR tree, extraction, then graphStore.InsertNodesAndEdges.
\* A failed insert may already have merged the Document root.
RunInsertGraph(r, ok, partial) ==
  /\ pc[r] = "insertGraph"
  /\ IF ok
     THEN /\ graphNodes' = InsertNodesAndEdges(graphNodes, saga[r].DocumentID,
                                               Chunks(fileHash[r]))
          /\ pc' = [pc EXCEPT ![r] = "complete"]
     ELSE /\ graphNodes' = IF partial
                           THEN graphNodes \cup {DocumentRoot(saga[r].DocumentID)}
                           ELSE graphNodes
          /\ pc' = [pc EXCEPT ![r] = "failIndexing"]
  /\ UNCHANGED <<documents, ingest_sagas, saga_steps, vectorPoints, criticalLog,
                 fileHash, docID, saga, result>>
  /\ UNCHANGED outsideSaga

\* the graph insert failed: mark the saga and the step Failed
RunFailIndexing(r) ==
  /\ pc[r] = "failIndexing"
  /\ ingest_sagas' = UpdateSagaStatus(ingest_sagas, saga[r].ID, saga[r].Version,
                                      SagaStatusFailed, StepIndexing,
                                      "neo4j error").rows
  /\ saga_steps' = UpsertSagaStep(saga_steps, StepRowID(r, StepIndexing), 0,
                                  saga[r].ID, StepIndexing,
                                  SagaStatusFailed, "neo4j error")
  /\ pc' = [pc EXCEPT ![r] = "compensate"]
  /\ UNCHANGED <<documents, vectorPoints, graphNodes, criticalLog, fileHash, docID,
                 saga, result>>
  /\ UNCHANGED outsideSaga

CompensateNoAlert(points, log, doc, ok) ==
  IF ok THEN [points |-> DeleteDocument(points, doc), log |-> log]
        ELSE [points |-> points, log |-> log]

\* Compensation: Rollback the Qdrant insertion; a failed rollback is logged
\* as a critical alert naming the document
Compensate(points, log, doc, ok) ==
  IF ok THEN [points |-> DeleteDocument(points, doc), log |-> log]
        ELSE [points |-> points, log |-> log \cup {doc}]

RunCompensate(r, ok) ==
  /\ pc[r] = "compensate"
  /\ LET c == Compensate(vectorPoints, criticalLog, saga[r].DocumentID, ok)
     IN /\ vectorPoints' = c.points
        /\ criticalLog' = c.log
  /\ result' = [result EXCEPT ![r] = "GraphInsertionFailed"]
  /\ pc' = [pc EXCEPT ![r] = "done"]
  /\ UNCHANGED <<documents, ingest_sagas, saga_steps, graphNodes, fileHash, docID,
                 saga>>
  /\ UNCHANGED outsideSaga

\* the Indexing step row is closed, then: Final status
RunComplete(r) ==
  /\ pc[r] = "complete"
  /\ LET upd == UpdateSagaStatus(ingest_sagas, saga[r].ID, saga[r].Version,
                                 SagaStatusCompleted, StepIndexing, "")
     IN /\ ingest_sagas' = upd.rows
        /\ result' = [result EXCEPT ![r] =
                        IF upd.err # "" THEN "ConcurrentUpdate" ELSE "Completed"]
  /\ saga_steps' = UpsertSagaStep(saga_steps, StepRowID(r, StepIndexing), 0,
                                  saga[r].ID, StepIndexing, SagaStatusCompleted, "")
  /\ pc' = [pc EXCEPT ![r] = "done"]
  /\ UNCHANGED <<documents, vectorPoints, graphNodes, criticalLog, fileHash, docID,
                 saga>>
  /\ UNCHANGED outsideSaga

Next ==
  \/ \E r \in Reqs, h \in Hashes : Upload(r, h)
  \/ \E r \in Reqs : StartGetSaga(r)
  \/ \E r \in Reqs : StartCreateDocument(r)
  \/ \E r \in Reqs : StartCreateSaga(r)
  \/ \E r \in Reqs, ok \in BOOLEAN : Parse(r, ok)
  \/ \E r \in Reqs, ok \in BOOLEAN : Embed(r, ok)
  \/ \E r \in Reqs : RunBegin(r)
  \/ \E r \in Reqs, ok \in BOOLEAN : RunInsertChunks(r, ok)
  \/ \E r \in Reqs : RunFailEmbedding(r)
  \/ \E r \in Reqs, ok \in BOOLEAN, partial \in BOOLEAN : RunInsertGraph(r, ok, partial)
  \/ \E r \in Reqs : RunFailIndexing(r)
  \/ \E r \in Reqs, ok \in BOOLEAN : RunCompensate(r, ok)
  \/ \E r \in Reqs : RunComplete(r)

Spec == Init /\ [][Next]_vars

TypeOK ==
  /\ \A i \in DOMAIN ingest_sagas :
       ingest_sagas[i].status \in {SagaStatusPending, SagaStatusProcessing,
                                   SagaStatusCompleted, SagaStatusFailed}
  /\ \A r \in Reqs : saga[r].ID \in 0..Len(ingest_sagas)

\* ---- properties of the ingestion saga ----

SagaIDs == DOMAIN ingest_sagas
PointsInserted(doc) ==
  {[id |-> deterministicID(ChunkID(doc, c)), doc_id |-> doc, chunk |-> c] :
     c \in 1..NumChunks}
NodesInserted(doc) == {[doc_id |-> doc, node |-> c] : c \in 0..NumChunks}

\* a request that is inside RunIngestionSaga, past the begin transition
Executing == {"insertChunks", "failEmbedding", "insertGraph", "failIndexing",
              "compensate", "complete"}

\* C1: in every reachable state each Document has at most one saga whose
\* status is Completed, also when the same file is uploaded concurrently.
C1_AtMostOneCompletedSaga ==
  \A d \in DOMAIN documents :
    Cardinality({i \in SagaIDs : /\ ingest_sagas[i].document_id = d
                                 /\ ingest_sagas[i].status = SagaStatusCompleted}) <= 1

\* C2: whenever a saga's persisted status becomes Completed, at that moment
\* the vector store holds the points inserted for its document and the graph
\* store holds the nodes inserted for its document.
C2_CompletedOnlyWithBothEffects ==
  [][\A i \in SagaIDs :
       (/\ ingest_sagas[i].status # SagaStatusCompleted
        /\ ingest_sagas'[i].status = SagaStatusCompleted)
       => /\ PointsInserted(ingest_sagas[i].document_id) \subseteq vectorPoints'
          /\ NodesInserted(ingest_sagas[i].document_id) \subseteq graphNodes']_vars

\* C3: for any saga at most one execution of RunIngestionSaga at a time is
\* past the begin transition and writing to the vector or graph store.
C3_OneExecutorPerSaga ==
  \A r1, r2 \in Reqs :
    (r1 # r2 /\ pc[r1] \in Executing /\ pc[r2] \in Executing)
      => saga[r1].ID # saga[r2].ID

\* C4: UpdateSagaStatus called with an observed version that differs from the
\* persisted version fails with ErrConcurrentUpdate and leaves the saga row
\* unchanged (where the caller returns the error, it is ConcurrentUpdate).
StaleCall(r) ==
  /\ pc[r] \in {"begin", "failEmbedding", "failIndexing", "complete"}
  /\ saga[r].Version # ingest_sagas[saga[r].ID].version

C4_StaleUpdateRejected ==
  [][\A r \in Reqs :
       (StaleCall(r) /\ pc'[r] # pc[r])
       => /\ ingest_sagas' = ingest_sagas
          /\ (pc[r] \in {"begin", "complete"} => result'[r] = "ConcurrentUpdate")]_vars

C4_Witness ==
  \E r \in Reqs : result[r] = "ConcurrentUpdate"

\* C5: when RunIngestionSaga returns after the graph insertion failed, either
\* the vector store holds no point of that document or a critical
\* compensation-failure record has been logged for the document.
C5_CompensatedOrAlerted ==
  [][\A r \in Reqs :
       (pc[r] = "compensate" /\ pc'[r] = "done")
       => \/ PointsOf(vectorPoints', saga[r].DocumentID) = {}
          \/ saga[r].DocumentID \in criticalLog']_vars

C5_Witness ==
  \E r, q \in Reqs :
    /\ result[r] = "GraphInsertionFailed" /\ saga[r].DocumentID \in criticalLog
    /\ result[q] = "GraphInsertionFailed" /\ saga[q].DocumentID \notin criticalLog
    /\ PointsOf(vectorPoints, saga[q].DocumentID) = {}

\* C6: for every content hash at most one Document row exists, also when two
\* StartOrResumeIngestion calls for the same new hash run concurrently.
C6_HashUnique ==
  \A i, j \in DOMAIN documents :
    documents[i].file_hash = documents[j].file_hash => i = j

C6_Witness ==
  \E r \in Reqs : result[r] = "CreateDocumentFailed"

\* C7: when a file whose latest saga is Completed is ingested again,
\* StartOrResumeIngestion finds the Document, fails with the already-ingested
\* error, and no Document row, saga row, vector point or graph node is
\* created or changed.
LatestAllCompleted(doc) ==
  /\ GetLatestSagaByDocumentID(ingest_sagas, doc) # {}
  /\ \A i \in GetLatestSagaByDocumentID(ingest_sagas, doc) :
       ingest_sagas[i].status = SagaStatusCompleted

C7_AlreadyIngestedRefused ==
  [][\A r \in Reqs :
       /\ (/\ pc[r] = "idle" /\ pc'[r] # "idle"
           /\ \E d \in DOMAIN documents :
                documents[d].file_hash = fileHash'[r] /\ LatestAllCompleted(d))
          => (pc'[r] = "getSaga" /\ UNCHANGED stores)
       /\ (pc[r] = "getSaga" /\ pc'[r] # "getSaga" /\ LatestAllCompleted(docID[r]))
          => (result'[r] = "AlreadyIngested" /\ pc'[r] = "done" /\ UNCHANGED stores)]_vars

C7_Witness ==
  \E r \in Reqs : result[r] = "AlreadyIngested"

\* C8 (as stated): a saga's persisted status only moves Pending to Processing
\* and then to Completed or Failed; once Completed or Failed it never changes.
C8_Original_TerminalStatusesFinal ==
  [][\A i \in SagaIDs :
       ingest_sagas'[i].status # ingest_sagas[i].status
       => <<ingest_sagas[i].status, ingest_sagas'[i].status>> \in
            {<<SagaStatusPending, SagaStatusProcessing>>,
             <<SagaStatusProcessing, SagaStatusCompleted>>,
             <<SagaStatusProcessing, SagaStatusFailed>>}]_vars

\* C8 (amended): a saga's persisted status only moves Pending to Processing,
\* Processing to Completed or Failed, and Failed back to Processing when the
\* saga is resumed by a new upload of the file; once Completed it never
\* changes again.
C8_StatusTransitions ==
  [][\A i \in SagaIDs :
       ingest_sagas'[i].status # ingest_sagas[i].status
       => <<ingest_sagas[i].status, ingest_sagas'[i].status>> \in
            {<<SagaStatusPending, SagaStatusProcessing>>,
             <<SagaStatusProcessing, SagaStatusCompleted>>,
             <<SagaStatusProcessing, SagaStatusFailed>>,
             <<SagaStatusFailed, SagaStatusProcessing>>}]_vars

\* a Failed saga that a later upload has resumed, and a Completed saga
C8_Witness ==
  /\ \E q \in Reqs :
       /\ result[q] \in {"VectorInsertionFailed", "GraphInsertionFailed"}
       /\ ingest_sagas[saga[q].ID].status = SagaStatusProcessing
       /\ ingest_sagas[saga[q].ID].version = saga[q].Version + 2

\* C9: in a run where the vector insert succeeds and the graph insert fails
\* the persisted saga row passes through Pending, Processing at Embedding,
\* Processing at Indexing and Failed at Indexing, in that order: the row that
\* becomes Failed at Indexing was Processing at Indexing just before.
C9_FailedIndexingFollowsProcessingIndexing ==
  [][\A r \in Reqs :
       (/\ pc[r] = "failIndexing" /\ pc'[r] # pc[r]
        /\ ingest_sagas'[saga[r].ID].status = SagaStatusFailed
        /\ ingest_sagas'[saga[r].ID] # ingest_sagas[saga[r].ID])
       => /\ ingest_sagas'[saga[r].ID].current_step = StepIndexing
          /\ ingest_sagas[saga[r].ID].status = SagaStatusProcessing
          /\ ingest_sagas[saga[r].ID].current_step = StepIndexing]_vars

\* C10: after a successful first ingestion of a new file the saga row has
\* status Completed, current step Indexing and version at least 4.
C10_CompletedAtVersionFour ==
  [][\A r \in Reqs :
       (pc[r] = "complete" /\ saga[r].Version = 2 /\ result'[r] = "Completed")
       => /\ ingest_sagas'[saga[r].ID].status = SagaStatusCompleted
          /\ ingest_sagas'[saga[r].ID].current_step = StepIndexing
          /\ ingest_sagas'[saga[r].ID].version >= 4]_vars

\* C11: if the vector insert fails, the saga is marked Failed at step
\* Embedding with the error text recorded, RunIngestionSaga returns the
\* vector-insertion error, and neither the compensating vector delete nor the
\* graph insert is invoked.
C11_VectorFailureMarksFailed ==
  [][\A r \in Reqs :
       (pc[r] = "failEmbedding" /\ pc'[r] # pc[r])
       => /\ ingest_sagas'[saga[r].ID].status = SagaStatusFailed
          /\ ingest_sagas'[saga[r].ID].current_step = StepEmbedding
          /\ ingest_sagas'[saga[r].ID].error_message = "qdrant error"
          /\ result'[r] = "VectorInsertionFailed"
          /\ pc'[r] = "done"
          /\ vectorPoints' = vectorPoints
          /\ graphNodes' = graphNodes]_vars

\* C12: running a successful saga a second time with the same document id,
\* chunks and graph nodes leaves the vector store and the graph store in the
\* state they had after the first run.
C12_RerunIdempotent ==
  [][\A r \in Reqs :
       /\ (/\ pc[r] = "insertChunks" /\ pc'[r] = "insertGraph"
           /\ \A c \in Chunks(fileHash[r]) :
                \E p \in PointsOf(vectorPoints, saga[r].DocumentID) : p.chunk = c)
          => vectorPoints' = vectorPoints
       /\ (/\ pc[r] = "insertGraph" /\ pc'[r] = "complete"
           /\ NodesInserted(saga[r].DocumentID) \subseteq graphNodes)
          => graphNodes' = graphNodes]_vars

\* a second run on a document has gone through both inserts after a first
\* run had completed them
C12_Witness ==
  \E r, q \in Reqs :
    /\ r # q
    /\ saga[r].DocumentID = saga[q].DocumentID
    /\ pc[r] = "done" /\ result[r] \in {"Completed", "ConcurrentUpdate"}
    /\ pc[q] = "complete"
    /\ ingest_sagas[saga[r].ID].status = SagaStatusCompleted
    /\ PointsInserted(saga[q].DocumentID) \subseteq vectorPoints
    /\ NodesInserted(saga[q].DocumentID) \subseteq graphNodes

\* C31: in no reachable state, a stop between two steps included, is a saga
\* persisted as Failed at step Indexing while the vector store still holds
\* points of its document and no critical record names the document.
C31_FailedIndexingCompensated ==
  \A i \in SagaIDs :
    (/\ ingest_sagas[i].status = SagaStatusFailed
     /\ ingest_sagas[i].current_step = StepIndexing)
    => \/ PointsOf(vectorPoints, ingest_sagas[i].document_id) = {}
       \/ ingest_sagas[i].document_id \in criticalLog

\* C32: when the begin transition finds a persisted version that differs from
\* the observed one, RunIngestionSaga ends with ConcurrentUpdate, having
\* written nothing to the vector store, the graph store, the saga row or the
\* step rows.
C32_StaleBeginAborts ==
  [][\A r \in Reqs :
       (/\ pc[r] = "begin" /\ pc'[r] # pc[r]
        /\ saga[r].Version # ingest_sagas[saga[r].ID].version)
       => /\ result'[r] = "ConcurrentUpdate"
          /\ pc'[r] = "done"
          /\ UNCHANGED <<ingest_sagas, saga_steps, vectorPoints, graphNodes>>]_vars

\* A request was turned away at the begin transition by another request that
\* holds the same saga and has begun.
C32_Witness ==
  \E r, q \in Reqs :
    /\ r # q
    /\ saga[r].ID = saga[q].ID
    /\ result[r] = "ConcurrentUpdate" /\ saga[r].Version = 1
    /\ pc[q] = "insertChunks"
    /\ vectorPoints = {} /\ graphNodes = {}

\* C33: an execution of RunIngestionSaga that ends with an error after its
\* begin transition succeeded leaves the persisted saga status Failed.
C33_ErrorLeavesFailed ==
  [][\A r \in Reqs :
       (/\ pc[r] \in Executing /\ pc'[r] = "done"
        /\ result'[r] # "Completed")
       => ingest_sagas'[saga[r].ID].status = SagaStatusFailed]_vars

\* C34: when embedding generation fails in the asynchronous job of an accepted
\* upload, the saga is marked Failed.
C34_EmbedFailureMarksFailed ==
  [][\A r \in Reqs :
       (pc[r] = "embed" /\ result'[r] = "EmbedFailed")
       => ingest_sagas'[saga[r].ID].status = SagaStatusFailed]_vars

\* ---- circuit breaker: Execute and tryCall ----

\* Execute up to the call of tryCall: the switch on cb.state under cb.mu.
Execute(c) ==
  /\ cbPc[c] = "idle"
  /\ IF cb.state = StateOpen
     THEN IF TimeoutElapsed(cb, clock)
          THEN /\ cb' = [cb EXCEPT !.state = StateHalfOpen]
               /\ cbPc' = [cbPc EXCEPT ![c] = "fn"]
               /\ cbResult' = [cbResult EXCEPT ![c] = ""]
               /\ probe' = [probe EXCEPT ![c] = TRUE]
          ELSE /\ cbResult' = [cbResult EXCEPT ![c] = ErrCircuitOpen]
               /\ probe' = [probe EXCEPT ![c] = FALSE]
               /\ UNCHANGED <<cb, cbPc>>
     ELSE /\ cbPc' = [cbPc EXCEPT ![c] = "fn"]
          /\ cbResult' = [cbResult EXCEPT ![c] = ""]
          /\ probe' = [probe EXCEPT ![c] = FALSE]
          /\ UNCHANGED cb
  /\ UNCHANGED <<clock, streak>>
  /\ UNCHANGED outsideBreaker

\* tryCall: fn returns (failed or not) and the breaker is updated under cb.mu.
TryCall(c, failed) ==
  /\ cbPc[c] = "fn"
  /\ cb' = tryCall(cb, failed, clock)
  /\ cbPc' = [cbPc EXCEPT ![c] = "idle"]
  /\ cbResult' = [cbResult EXCEPT ![c] = IF failed THEN "err" ELSE "nil"]
  /\ streak' = IF failed THEN streak + 1 ELSE 0
  /\ UNCHANGED <<clock, probe>>
  /\ UNCHANGED outsideBreaker

\* Time passes.
Tick ==
  /\ clock < MaxTime
  /\ clock' = clock + 1
  /\ UNCHANGED <<cb, cbPc, cbResult, probe, streak>>
  /\ UNCHANGED outsideBreaker

InitBreaker ==
  /\ SagaInit
  /\ ScoutIdle
  /\ SaveInit
  /\ \E failThreshold \in 1..MaxFailThreshold, openTimeout \in 1..MaxOpenTimeout :
       BreakerInit(failThreshold, openTimeout)
  /\ FusionIdle
  /\ SkylineIdle
  /\ BatcherIdle
  /\ GeneratorIdle
  /\ RetryIdle
  /\ OpdsIdle

NextBreaker ==
  \/ \E c \in Callers : Execute(c)
  \/ \E c \in Callers, failed \in BOOLEAN : TryCall(c, failed)
  \/ Tick

SpecBreaker == InitBreaker /\ [][NextBreaker]_breakerVars

\* ---- properties of the circuit breaker ----

\* Caller c takes the step of Execute that decides on admission.
ExecuteStep(c) ==
  /\ cbPc[c] = "idle"
  /\ \/ cbPc'[c] = "fn"
     \/ cbResult'[c] # cbResult[c]

\* Caller c's wrapped function returns and tryCall updates the breaker.
Completes(c) == cbPc[c] = "fn" /\ cbPc'[c] = "idle"

\* C13: starting from Closed the breaker moves to Open exactly when
\* failThreshold consecutive calls have failed (streak counts the calls that
\* failed since the last success), and a call that succeeds sets the count of
\* failures back to zero.
C13_OpensAtThreshold ==
  [][/\ (cb.state = StateClosed /\ cb'.state = StateOpen)
        => (streak' = cb.failThreshold /\ streak' = streak + 1)
     /\ (cb.state = StateClosed /\ streak' = streak + 1 /\ streak' = cb.failThreshold)
        => cb'.state = StateOpen
     /\ \A c \in Callers :
          (Completes(c) /\ cbResult'[c] = "nil") => cb'.failCount = 0]_breakerVars

C13_Witness ==
  /\ cb.state = StateOpen
  /\ cb.failThreshold = 2
  /\ streak = 2
  /\ \E c \in Callers : cbResult[c] = "nil"

\* C14: while the breaker is Open and no more than openTimeout has passed
\* since it opened, Execute returns ErrCircuitOpen and the wrapped function
\* is not invoked: the caller does not enter fn and the breaker is untouched.
C14_OpenRejects ==
  [][\A c \in Callers :
       (/\ ExecuteStep(c)
        /\ cb.state = StateOpen
        /\ clock - cb.openedAt <= cb.openTimeout)
       => /\ cbResult'[c] = ErrCircuitOpen
          /\ cbPc' = cbPc
          /\ cb' = cb]_breakerVars

C14_Witness ==
  \E c \in Callers :
    /\ cbResult[c] = ErrCircuitOpen
    /\ cbPc[c] = "idle"
    /\ cb.state = StateOpen
    /\ clock - cb.openedAt <= cb.openTimeout

\* C15: once more than openTimeout has passed in Open, the next Execute is
\* admitted and the breaker is HalfOpen; when that call returns, the breaker
\* is Closed if it succeeded and Open if it failed.
C15_HalfOpenProbe ==
  [][\A c \in Callers :
       /\ (/\ ExecuteStep(c)
           /\ cb.state = StateOpen
           /\ clock - cb.openedAt > cb.openTimeout)
          => (cb'.state = StateHalfOpen /\ cbPc'[c] = "fn")
       /\ (Completes(c) /\ probe[c])
          => cb'.state = IF cbResult'[c] = "nil" THEN StateClosed ELSE StateOpen]_breakerVars

\* C36: while the breaker is HalfOpen and the probe call is in flight, an
\* Execute of another caller is not admitted: the caller does not enter fn.
C36_SingleProbe ==
  [][\A c \in Callers :
       (/\ ExecuteStep(c)
        /\ cb.state = StateHalfOpen
        /\ \E q \in Callers : q # c /\ cbPc[q] = "fn" /\ probe[q])
       => cbPc'[c] # "fn"]_breakerVars

\* C37: an Open breaker leaves Open only once more than openTimeout has
\* passed since it opened, and then to HalfOpen; the completion of a call
\* never moves it from Open to Closed.
C37_OpenUntilTimeout ==
  [][(cb.state = StateOpen /\ cb'.state # StateOpen)
       => /\ cb'.state = StateHalfOpen
          /\ clock - cb.openedAt > cb.openTimeout]_breakerVars

\* ---- scout worker: Run ----

\* Config.Validate: concurrency at least 1, batch size and since not negative.
\* A batch size of MaxItems or more limits nothing, as 0 does.
Configs ==
  [WorkerSinceTimestamp : 0..MaxTS, WorkerConcurrency : 1..MaxConcurrency,
   WorkerBatchSize : 0..(MaxItems - 1)]

\* models.BookMetadata as far as Run reads it.
Books == [ID : Items, AddedAt : 1..Now(MaxRuns)]

\* A run is clean when it fetched the catalog, every book it fetched is
\* processed when it returns, and the state file holds the state it ends with.
Clean(pageOk, books, st, f) ==
  /\ pageOk
  /\ \A k \in 1..Len(books) : books[k].ID \in st.ProcessedIDs
  /\ f = st

\* The worker process starts: main loads the state file, Run chooses since,
\* fetches, filters and limits the batch (steps 1 to 4), and returns at once
\* when nothing is left to process.
RunStart(pageOk) ==
  /\ runPc = "exited"
  /\ runs < MaxRuns
  /\ LET loaded == file
         s == SinceOf(cfg, loaded)
         books == FetchNewBooks(feed, s, Now(runs), pageOk)
         actionable == FilterBooks(books, loaded)
     IN /\ state' = loaded
        /\ since' = s
        /\ maxTimestamp' = s
        /\ fetched' = books
        /\ IF actionable = <<>>
           THEN /\ outcome' = IF books = <<>> THEN "noBooks" ELSE "allProcessed"
                /\ runs' = runs + 1
                /\ cleanRuns' = IF Clean(pageOk, books, loaded, file)
                                THEN cleanRuns \cup {runs + 1} ELSE cleanRuns
                /\ UNCHANGED <<runPc, actionableBooks>>
           ELSE /\ runPc' = "loop"
                /\ actionableBooks' = LimitBatch(actionable, cfg)
                /\ outcome' = ""
                /\ UNCHANGED <<runs, cleanRuns>>
  /\ UNCHANGED <<cfg, feed, file, inFlight, downloaded, submitted, sends>>
  /\ UNCHANGED outsideScout

\* Step 5, main goroutine: take a semaphore token and start the goroutine of
\* the next book.
Launch ==
  /\ runPc = "loop"
  /\ actionableBooks # <<>>
  /\ semFree(inFlight, cfg)
  /\ inFlight' = inFlight \cup {Head(actionableBooks)}
  /\ actionableBooks' = Tail(actionableBooks)
  /\ UNCHANGED <<cfg, feed, file, state, runPc, since, maxTimestamp, fetched,
                 downloaded, submitted, sends, runs, cleanRuns, outcome>>
  /\ UNCHANGED outsideScout

\* Step 5, goroutine of book b: processBook (download, then send), the update
\* under mu, and the release of the token.
ProcessBook(b, res) ==
  /\ b \in inFlight
  /\ downloaded' = IF res = "downloadFailed" THEN downloaded
                   ELSE downloaded \cup {b.ID}
  /\ sends' = IF res = "downloadFailed" THEN sends ELSE sends + 1
  /\ submitted' = IF res = "ok" THEN submitted \cup {b.ID} ELSE submitted
  /\ state' = taskDone(state, b, res # "ok")
  /\ maxTimestamp' = IF res = "ok" /\ b.AddedAt > maxTimestamp
                     THEN b.AddedAt ELSE maxTimestamp
  /\ inFlight' = inFlight \ {b}
  /\ UNCHANGED <<cfg, feed, file, runPc, since, fetched, actionableBooks, runs,
                 cleanRuns, outcome>>
  /\ UNCHANGED outsideScout

\* Step 6, after wg.Wait: update the watermark, save the state file, return.
RunFinalize(saveOk) ==
  /\ runPc = "loop"
  /\ actionableBooks = <<>>
  /\ inFlight = {}
  /\ LET st == IF maxTimestamp > since THEN UpdateWatermark(state, maxTimestamp)
               ELSE state
         f == IF saveOk THEN st ELSE file
     IN /\ state' = st
        /\ file' = f
        /\ cleanRuns' = IF Clean(TRUE, fetched, st, f)
                        THEN cleanRuns \cup {runs + 1} ELSE cleanRuns
  /\ outcome' = IF saveOk THEN "saved" ELSE "saveFailed"
  /\ runs' = runs + 1
  /\ runPc' = "exited"
  /\ UNCHANGED <<cfg, feed, since, maxTimestamp, fetched, actionableBooks, inFlight,
                 downloaded, submitted, sends>>
  /\ UNCHANGED outsideScout

InitScout ==
  /\ SagaInit
  /\ BreakerIdle
  /\ SaveInit
  /\ \E c \in Configs, entries \in [Items -> 0..MaxTS] : ScoutInit(c, entries)
  /\ FusionIdle
  /\ SkylineIdle
  /\ BatcherIdle
  /\ GeneratorIdle
  /\ RetryIdle
  /\ OpdsIdle

NextScout ==
  \/ \E pageOk \in BOOLEAN : RunStart(pageOk)
  \/ Launch
  \/ \E b \in Books, res \in {"downloadFailed", "sendFailed", "ok"} :
       ProcessBook(b, res)
  \/ \E saveOk \in BOOLEAN : RunFinalize(saveOk)

SpecScout == InitScout /\ [][NextScout]_scoutVars

\* ---- properties of the scout worker ----

Max(a, b) == IF a >= b THEN a ELSE b

\* C16: whatever a Run does and whatever since-timestamp is configured, the
\* watermark never moves backwards: neither the one in the state file nor,
\* while Run is at work, the one of the state store.
C16_WatermarkMonotonic ==
  [][/\ file'.Watermark >= file.Watermark
     /\ runPc = "loop" => state'.Watermark >= state.Watermark]_scoutVars

\* A Run has ended whose maximum timestamp of submitted books was above since
\* but below the stored watermark: UpdateWatermark was called with an older
\* timestamp.
C16_Witness ==
  /\ runPc = "exited"
  /\ outcome = "saved"
  /\ maxTimestamp > since
  /\ maxTimestamp < state.Watermark
  /\ file = state

\* C17: an id is in the processed set, in the state store or in the state
\* file, only if that item's download and its submission both succeeded.
C17_ProcessedOnlyIfSubmitted ==
  /\ state.ProcessedIDs \subseteq (downloaded \cap submitted)
  /\ file.ProcessedIDs \subseteq (downloaded \cap submitted)

\* One book is processed and saved; another was downloaded but its submission
\* failed, and it is not processed.
C17_Witness ==
  /\ \E i \in Items : i \in file.ProcessedIDs
  /\ \E i \in Items : i \in downloaded /\ i \notin submitted /\ i \notin state.ProcessedIDs

\* C18: while Run processes its batch, since is the larger of the configured
\* since-timestamp and the stored watermark, and every fetched book is newer
\* than that.
C18_SinceIsMax ==
  runPc = "loop" =>
    /\ since = Max(cfg.WorkerSinceTimestamp, state.Watermark)
    /\ \A k \in 1..Len(fetched) :
         fetched[k].AddedAt > Max(cfg.WorkerSinceTimestamp, state.Watermark)

C20_BoundedConcurrency ==
  Cardinality(inFlight) <= cfg.WorkerConcurrency

\* The semaphore is full and a book is waiting for a token.
C20_Witness ==
  /\ Cardinality(inFlight) = cfg.WorkerConcurrency
  /\ actionableBooks # <<>>

\* C35: after a Run that went through its batch and saved its state, every
\* item it fetched and that has not been submitted (its download or submission
\* failed, or the batch-size limit cut it off) has an added_at above the new
\* watermark.
C35_UnsubmittedAboveWatermark ==
  (runPc = "exited" /\ outcome = "saved") =>
    \A x \in DOMAIN fetched :
      fetched[x].ID \notin submitted => fetched[x].AddedAt > state.Watermark

\* ---- scout state store: Save on the file system ----

\* The worker marks a book processed (between Saves; Save holds the read lock).
StoreMarkProcessed(i) ==
  /\ savePc = "idle"
  /\ state' = MarkProcessed(state, i)
  /\ UNCHANGED saveVars
  /\ UNCHANGED outsideSave

\* The worker moves the watermark.
StoreUpdateWatermark(t) ==
  /\ savePc = "idle"
  /\ state' = UpdateWatermark(state, t)
  /\ UNCHANGED saveVars
  /\ UNCHANGED outsideSave

\* Save: os.Create(tmpFile) truncates or creates the temporary file; on an
\* error Save returns.
SaveCreate(ok) ==
  /\ savePc = "idle"
  /\ before' = fs[filepath]
  /\ IF ok
     THEN /\ fs' = [fs EXCEPT ![tmpFile(filepath)] = Encode(state, 0)]
          /\ savePc' = "encode"
     ELSE UNCHANGED <<fs, savePc>>
  /\ UNCHANGED state
  /\ UNCHANGED outsideSave

\* Save: encoder.Encode writes the next block; on an error the file is closed
\* as it is and Save returns.
SaveEncode(ok) ==
  /\ savePc = "encode"
  /\ IF ok
     THEN /\ fs' = [fs EXCEPT ![tmpFile(filepath)].blocks = @ + 1]
          /\ savePc' = IF fs[tmpFile(filepath)].blocks + 1 = EncBlocks
                       THEN "rename" ELSE "encode"
     ELSE /\ savePc' = "idle"
          /\ UNCHANGED fs
  /\ UNCHANGED <<before, state>>
  /\ UNCHANGED outsideSave

\* Save: os.Rename(tmpFile, filepath) replaces the state file in one step, or
\* fails and leaves both files.
SaveRename(ok) ==
  /\ savePc = "rename"
  /\ fs' = IF ok /\ tmpFile(filepath) # filepath
           THEN [fs EXCEPT ![filepath] = fs[tmpFile(filepath)],
                           ![tmpFile(filepath)] = Absent]
           ELSE fs
  /\ savePc' = "idle"
  /\ UNCHANGED <<before, state>>
  /\ UNCHANGED outsideSave

\* The process stops, wherever it is.
Stop ==
  /\ savePc # "stopped"
  /\ savePc' = "stopped"
  /\ UNCHANGED <<fs, before, state>>
  /\ UNCHANGED outsideSave

\* A new process starts: load decodes the state file if there is one; a file
\* that cannot be decoded keeps the worker from starting.
Restart ==
  /\ savePc = "stopped"
  /\ fs[filepath] = Absent \/ Complete(fs[filepath])
  /\ state' = IF fs[filepath] = Absent THEN NewFileStateStore ELSE fs[filepath].data
  /\ savePc' = "idle"
  /\ UNCHANGED <<fs, before>>
  /\ UNCHANGED outsideSave

InitSave ==
  /\ SagaInit
  /\ BreakerIdle
  /\ ScoutIdle
  /\ SaveInit
  /\ FusionIdle
  /\ SkylineIdle
  /\ BatcherIdle
  /\ GeneratorIdle
  /\ RetryIdle
  /\ OpdsIdle

NextSave ==
  \/ \E i \in Items : StoreMarkProcessed(i)
  \/ \E t \in 1..MaxTS : StoreUpdateWatermark(t)
  \/ \E ok \in BOOLEAN : SaveCreate(ok)
  \/ \E ok \in BOOLEAN : SaveEncode(ok)
  \/ \E ok \in BOOLEAN : SaveRename(ok)
  \/ Stop
  \/ Restart

SpecSave == InitSave /\ [][NextSave]_<<saveVars, state>>

\* C21: wherever the process is in Save, and if it stops there, the state
\* file holds what it held when Save began or the complete new state, and it
\* is never a partly written file.
C21_SaveAtomic ==
  /\ fs[filepath] = Absent \/ Complete(fs[filepath])
  /\ savePc \in {"encode", "rename"} =>
       fs[filepath] \in {before, Encode(state, EncBlocks)}

\* The process stopped while the temporary file was partly written; the state
\* file still holds the complete earlier state, which differs from the new one.
C21_Witness ==
  /\ savePc = "stopped"
  /\ fs[tmpFile(filepath)] # Absent
  /\ ~Complete(fs[tmpFile(filepath)])
  /\ Complete(fs[filepath])
  /\ fs[filepath].data # state

\* ---- fusion retriever: Retrieve ----

\* What an engine's search can return: an error, or a list of results.
EngineOutputs(source) ==
  {[ok |-> FALSE, docs |-> <<>>]} \cup {[ok |-> TRUE, docs |-> l] : l \in DocLists(source, MaxDocs)}

\* An engine's goroutine returns: a failed search is logged and adds nothing,
\* a successful one appends its results under mu.  The goroutine returns nil.
EngineDone(e) ==
  /\ retPc = "wait"
  /\ e \notin completed
  /\ completed' = completed \cup {e}
  /\ allResults' = IF engineOut[e].ok THEN allResults \o engineOut[e].docs ELSE allResults
  /\ groupErr' = IF groupErr = "nil" THEN goroutineReturn(engineOut[e]) ELSE groupErr
  /\ UNCHANGED <<engineOut, weights, retPc, retErr, fused>>
  /\ UNCHANGED outsideFusion

\* g.Wait returns: on an error Retrieve returns it with no results, else it
\* returns performWeightedRRF(allResults).
RetrieveReturn(srcOrder, keyOrder) ==
  /\ retPc = "wait"
  /\ completed = Engines
  /\ fused' = IF groupErr # "nil" THEN <<>>
              ELSE performWeightedRRF(allResults, weights, srcOrder, keyOrder)
  /\ retErr' = groupErr
  /\ retPc' = "done"
  /\ UNCHANGED <<engineOut, weights, completed, allResults, groupErr>>
  /\ UNCHANGED outsideFusion

InitFusion ==
  /\ SagaInit
  /\ BreakerIdle
  /\ ScoutIdle
  /\ SaveInit
  /\ SkylineIdle
  /\ BatcherIdle
  /\ GeneratorIdle
  /\ RetryIdle
  /\ OpdsIdle
  /\ \E intent \in Intents, vector \in EngineOutputs("vector"),
        graph \in EngineOutputs("graph") :
       FusionInit(RouteWeights[intent], vector, graph)

NextFusion ==
  \/ \E e \in Engines : EngineDone(e)
  \/ \E srcOrder \in Orders(Engines), keyOrder \in Orders(Contents) :
       RetrieveReturn(srcOrder, keyOrder)

SpecFusion == InitFusion /\ [][NextFusion]_fusionVars

\* ---- properties of the fusion retriever ----

\* The results of the engines that succeeded, vector first.
ResultsInEngineOrder ==
  engineOut["vector"].docs \o engineOut["graph"].docs \o engineOut["tree"].docs

\* C22: for given per-engine result lists and a given intent, the list
\* Retrieve returns (order, scores, and the id and source kept for each
\* content) is one and the same, whatever the order in which the engines
\* completed: it is the list obtained when they complete in the order vector,
\* graph, tree.
C22_SameListForEveryOrder ==
  retPc = "done" =>
    fused = performWeightedRRF(ResultsInEngineOrder, weights,
                               <<"vector", "graph", "tree">>,
                               [i \in 1..MaxContents |-> i])

\* The per-engine results with content c, as pairs of engine and rank.
Occurrences(c) ==
  {p \in Engines \X (1..MaxDocs) :
     /\ engineOut[p[1]].ok
     /\ p[2] <= Len(engineOut[p[1]].docs)
     /\ engineOut[p[1]].docs[p[2]].Content = c}

RECURSIVE SumContributions(_)
SumContributions(ps) ==
  IF ps = {} THEN 0
  ELSE LET p == CHOOSE x \in ps : TRUE
       IN rrfScore(weights, p[1], p[2]) + SumContributions(ps \ {p})

\* C24: the fused list holds each content at most once, and the score of an
\* entry is the sum of weight / (60 + rank) over every per-engine result with
\* that content.
C24_DedupAndSummedScores ==
  retPc = "done" =>
    /\ \A i, j \in DOMAIN fused : i # j => fused[i].Content # fused[j].Content
    /\ \A i \in DOMAIN fused :
         fused[i].Score = SumContributions(Occurrences(fused[i].Content))

\* A content returned by both engines, and twice by one of them, is one entry.
C24_Witness ==
  /\ retPc = "done"
  /\ Len(fused) = 2
  /\ \E i \in DOMAIN fused : Cardinality(Occurrences(fused[i].Content)) = 3

\* C25: whichever engines fail, Retrieve returns no error, and the list it
\* returns is the fusion of the results of the engines that succeeded: it has
\* exactly their contents, each entry is one of their results, and its score
\* sums their contributions only.
C25_FailSoft ==
  retPc = "done" =>
    /\ retErr = "nil"
    /\ {fused[i].Content : i \in DOMAIN fused} = {c \in Contents : Occurrences(c) # {}}
    /\ \A i \in DOMAIN fused :
         /\ \E p \in Occurrences(fused[i].Content) :
              /\ fused[i].ID = engineOut[p[1]].docs[p[2]].ID
              /\ fused[i].Source = p[1]
         /\ fused[i].Score = SumContributions(Occurrences(fused[i].Content))

\* One engine failed and the results of the other were returned.
C25_Witness ==
  /\ retPc = "done"
  /\ \E e \in {"vector", "graph"} : ~engineOut[e].ok
  /\ Len(fused) = 2

\* ---- skyline ranker: Rank ----

RankCall ==
  /\ rankPc = "call"
  /\ skyline' = Rank(rankInput)
  /\ rankPc' = "done"
  /\ UNCHANGED rankInput
  /\ UNCHANGED outsideSkyline

InitSkyline ==
  /\ SagaInit
  /\ BreakerIdle
  /\ ScoutIdle
  /\ SaveInit
  /\ FusionIdle
  /\ BatcherIdle
  /\ GeneratorIdle
  /\ RetryIdle
  /\ OpdsIdle
  /\ \E n \in 0..MaxResults : \E list \in ResultLists(n) : SkylineInit(list)

NextSkyline == RankCall

SpecSkyline == InitSkyline /\ [][NextSkyline]_skylineVars

\* C23: the list Rank returns holds no two results a and b with b larger than
\* a on both the vector axis and the graph axis.
C23_NoDominatedPair ==
  rankPc = "done" =>
    \A a, b \in DOMAIN skyline :
      ~(/\ VectorScore(skyline[b]) > VectorScore(skyline[a])
        /\ GraphScore(skyline[b]) > GraphScore(skyline[a]))

\* Rank dropped a dominated result and returned two that do not dominate each
\* other.
C23_Witness ==
  /\ rankPc = "done"
  /\ Len(skyline) = 2
  /\ Len(rankInput) = 3
  /\ skyline[1].Source # skyline[2].Source

\* C40: for every non-empty input, Rank returns a non-empty list, and every
\* returned result is an element of the input, unmodified.
C40_NonEmptyUnmodified ==
  (rankPc = "done" /\ rankInput # <<>>)
    => /\ skyline # <<>>
       /\ \A i \in DOMAIN skyline : \E j \in DOMAIN rankInput :
            skyline[i] = rankInput[j]

\* Rank returned from three results of which the last dominates the other
\* two: it alone is returned, as it was passed in.
C40_Witness ==
  /\ rankPc = "done"
  /\ Len(rankInput) = 3
  /\ skyline = <<rankInput[3]>>
  /\ rankInput[3].Source = "graph"

\* ---- embedding batcher: GenerateEmbeddingsBatched ----

BatchesDone == {finished[x][1] : x \in DOMAIN finished}

\* The goroutine of batch i calls Embed and returns.
BatchDone(i, kind) ==
  /\ batPc = "wait"
  /\ i < numBatches(Len(texts), batchSize)
  /\ i \notin BatchesDone
  /\ LET start == batchStart(i, batchSize)
         pts == Slice(texts, start, batchEnd(i, batchSize, Len(texts)))
     IN IF kind = "error"
        THEN /\ errCh' = Append(errCh, BatchError(i))
             /\ UNCHANGED <<embResults, totalTokens>>
        ELSE /\ embResults' = Reassemble(embResults, pts, start, clientEmbed(pts, kind))
             /\ totalTokens' = totalTokens + Len(pts) * 10
             /\ UNCHANGED errCh
  /\ finished' = Append(finished, <<i, kind>>)
  /\ UNCHANGED <<texts, batchSize, batPc, batRet>>
  /\ UNCHANGED outsideBatcher

\* wg.Wait returns, or there was no text at all: the first error of the
\* channel is returned with no results, else the results.
BatcherReturn ==
  /\ batPc = "wait"
  /\ BatchesDone = 0..(numBatches(Len(texts), batchSize) - 1)
  /\ batRet' = IF Len(texts) = 0 \/ firstError(errCh) = "nil"
               THEN [results |-> embResults, tokens |-> totalTokens, err |-> "nil"]
               ELSE [results |-> <<>>, tokens |-> 0, err |-> firstError(errCh)]
  /\ batPc' = "done"
  /\ UNCHANGED <<texts, batchSize, embResults, totalTokens, errCh, finished>>
  /\ UNCHANGED outsideBatcher

InitBatcher ==
  /\ SagaInit
  /\ BreakerIdle
  /\ ScoutIdle
  /\ SaveInit
  /\ FusionIdle
  /\ SkylineIdle
  /\ GeneratorIdle
  /\ RetryIdle
  /\ OpdsIdle
  /\ \E n \in 0..MaxTexts, size \in 1..MaxBatchSize :
       \E input \in [1..n -> TextKinds] : BatcherInit(input, size)

NextBatcher ==
  \/ \E i \in 0..(MaxTexts - 1), kind \in EmbedOutcomes : BatchDone(i, kind)
  \/ BatcherReturn

SpecBatcher == InitBatcher /\ [][NextBatcher]_batcherVars

AllBatchesOk == \A x \in DOMAIN finished : finished[x][2] = "ok"

\* C26: when every batch succeeded and Embed returned one vector per text,
\* result i carries text i and the vector of text i, for every i, whatever
\* the order in which the batches completed.
C26_ResultsInInputOrder ==
  (batPc = "done" /\ AllBatchesOk) =>
    /\ batRet.err = "nil"
    /\ Len(batRet.results) = Len(texts)
    /\ \A i \in DOMAIN texts :
         batRet.results[i] = [Text |-> texts[i], Dense |-> EmbedVector(texts[i])]

\* Three batches completed last first, over texts that differ.
C26_Witness ==
  /\ batPc = "done"
  /\ AllBatchesOk
  /\ Len(finished) = 3
  /\ finished[1][1] = 2 /\ finished[2][1] = 1 /\ finished[3][1] = 0
  /\ texts[1] # texts[3]

\* C27: if at least one batch failed, GenerateEmbeddingsBatched returns an
\* error and no results, also when other batches succeeded.
C27_ErrorDiscardsResults ==
  (batPc = "done" /\ \E x \in DOMAIN finished : finished[x][2] = "error") =>
    /\ batRet.err # "nil"
    /\ batRet.results = <<>>

\* One batch succeeded and filled in its results before another failed.
C27_Witness ==
  /\ batPc = "done"
  /\ Len(finished) = 2
  /\ finished[1][2] = "ok" /\ finished[2][2] = "error"
  /\ embResults[1] # NilResult
  /\ batRet.results = <<>>

\* ---- agentic generator: GenerateAnswer ----

\* stream <- each of evs, received by the handler's range loop.
Send(evs) ==
  /\ events' = events \o evs
  /\ lateSend' = (lateSend \/ (evs # <<>> /\ closes > 0))

\* Step 1: the first reasoning event, decomposeQuery, and without a
\* retriever the event that says so.
Decompose(n) ==
  /\ genPc = "start"
  /\ subQueries' = n
  /\ Send(<<"reasoning">>
          \o (IF n > 1 THEN <<"reasoning">> ELSE <<>>)
          \o (IF hasRetriever THEN <<>> ELSE <<"reasoning">>))
  /\ IF hasRetriever
     THEN genPc' = "search" /\ sqIdx' = 1
     ELSE genPc' = "generate" /\ UNCHANGED sqIdx
  /\ UNCHANGED <<hasRetriever, contextChunks, closes, genCalls, lastGen,
                 firstSupport, handlerPc>>
  /\ UNCHANGED outsideGenerator

\* Steps 2 and 3 for one sub-query: Retrieve, then the retrieval critique of
\* each result; after the last sub-query the count of chunks is reported.
SearchSubQuery(retrieved, verdicts) ==
  /\ genPc = "search"
  /\ LET last == IF sqIdx = subQueries THEN <<"reasoning">> ELSE <<>>
     IN IF retrieved
        THEN /\ Send(<<"reasoning">> \o CritiqueEvents(verdicts) \o last)
             /\ contextChunks' = contextChunks + Relevant(verdicts)
        ELSE /\ Send(<<"reasoning", "reasoning">> \o last)
             /\ UNCHANGED contextChunks
  /\ IF sqIdx = subQueries
     THEN genPc' = "generate" /\ UNCHANGED sqIdx
     ELSE sqIdx' = sqIdx + 1 /\ UNCHANGED genPc
  /\ UNCHANGED <<hasRetriever, subQueries, closes, genCalls, lastGen,
                 firstSupport, handlerPc>>
  /\ UNCHANGED outsideGenerator

\* Step 4: the heavy LLM generates the first draft.
Generate(ok) ==
  /\ genPc = "generate"
  /\ genCalls' = genCalls + 1
  /\ lastGen' = IF ok THEN "ok" ELSE "failed"
  /\ IF ok
     THEN /\ Send(<<"reasoning">>)
          /\ genPc' = IF contextChunks > 0 THEN "critique" ELSE "answer"
     ELSE /\ Send(<<"reasoning", "error">>)
          /\ genPc' = afterError
  /\ UNCHANGED <<hasRetriever, subQueries, sqIdx, contextChunks, closes,
                 firstSupport, handlerPc>>
  /\ UNCHANGED outsideGenerator

\* Step 5: EvaluateGeneration; NoSupport leads to the regeneration.
Critique(support) ==
  /\ genPc = "critique"
  /\ firstSupport' = IF firstSupport = "none" THEN support ELSE firstSupport
  /\ IF support = NoSupport
     THEN /\ Send(<<"reasoning", "reasoning">>)
          /\ genPc' = "regenerate"
     ELSE /\ Send(<<"reasoning">>)
          /\ genPc' = "answer"
  /\ UNCHANGED <<hasRetriever, subQueries, sqIdx, contextChunks, closes,
                 genCalls, lastGen, handlerPc>>
  /\ UNCHANGED outsideGenerator

\* The heavy LLM generates again, with the strict-context directive.
Regenerate(ok) ==
  /\ genPc = "regenerate"
  /\ genCalls' = genCalls + 1
  /\ lastGen' = IF ok THEN "ok" ELSE "failed"
  /\ IF ok
     THEN /\ Send(<<>>)
          /\ genPc' = afterRegenerate
     ELSE /\ Send(<<"error">>)
          /\ genPc' = afterError
  /\ UNCHANGED <<hasRetriever, subQueries, sqIdx, contextChunks, closes,
                 firstSupport, handlerPc>>
  /\ UNCHANGED outsideGenerator

EmitAnswer ==
  /\ genPc = "answer"
  /\ Send(<<"answer">>)
  /\ genPc' = "return"
  /\ UNCHANGED <<hasRetriever, subQueries, sqIdx, contextChunks, closes,
                 genCalls, lastGen, firstSupport, handlerPc>>
  /\ UNCHANGED outsideGenerator

\* GenerateAnswer returns and its deferred close runs.
GeneratorReturn ==
  /\ genPc = "return"
  /\ closes' = deferClose(closes)
  /\ genPc' = "returned"
  /\ UNCHANGED <<hasRetriever, subQueries, sqIdx, contextChunks, events,
                 lateSend, genCalls, lastGen, firstSupport, handlerPc>>
  /\ UNCHANGED outsideGenerator

\* The handler's range over the stream ends once the stream is closed.
HandlerReturn ==
  /\ handlerPc = "range"
  /\ closes > 0
  /\ handlerPc' = "returned"
  /\ UNCHANGED <<hasRetriever, genPc, subQueries, sqIdx, contextChunks, events,
                 closes, lateSend, genCalls, lastGen, firstSupport>>
  /\ UNCHANGED outsideGenerator

InitGenerator ==
  /\ SagaInit
  /\ BreakerIdle
  /\ ScoutIdle
  /\ SaveInit
  /\ FusionIdle
  /\ SkylineIdle
  /\ BatcherIdle
  /\ RetryIdle
  /\ OpdsIdle
  /\ \E retriever \in BOOLEAN : GeneratorInit(retriever)

NextGenerator ==
  \/ \E n \in 1..MaxSubQueries : Decompose(n)
  \/ \E retrieved \in BOOLEAN, verdicts \in Verdicts : SearchSubQuery(retrieved, verdicts)
  \/ \E ok \in BOOLEAN : Generate(ok)
  \/ \E support \in SupportLevels : Critique(support)
  \/ \E ok \in BOOLEAN : Regenerate(ok)
  \/ EmitAnswer
  \/ GeneratorReturn
  \/ HandlerReturn

SpecGenerator == InitGenerator /\ [][NextGenerator]_generatorVars

LastEvent == IF events = <<>> THEN "none" ELSE events[Len(events)]

\* C28: on every path through GenerateAnswer the stream is closed exactly
\* once: never twice, once when GenerateAnswer has returned, and no event is
\* sent on it after the close.
C28_ClosedExactlyOnce ==
  /\ closes <= 1
  /\ genPc = "returned" <=> closes = 1
  /\ ~lateSend

\* The regeneration failed, and the stream was closed once after the error.
C28_Witness ==
  /\ genPc = "returned"
  /\ handlerPc = "returned"
  /\ genCalls = 2
  /\ lastGen = "failed"
  /\ closes = 1

\* C29 as stated: after NoSupport for the first draft there is exactly one
\* more generation call and then the answer is emitted; there are never more
\* than two generation calls.
C29_Original_RegenerateThenAnswer ==
  /\ genCalls <= 2
  /\ (genPc = "returned" /\ firstSupport = NoSupport) =>
       /\ genCalls = 2
       /\ LastEvent = "answer"

\* C29: after NoSupport for the first draft there is exactly one more
\* generation call; the answer is emitted if that call succeeded and an error
\* event if it failed; there are never more than two generation calls.
C29_OneRegeneration ==
  /\ genCalls <= 2
  /\ (genPc = "returned" /\ firstSupport = NoSupport) =>
       /\ genCalls = 2
       /\ lastGen = "ok" => LastEvent = "answer"
       /\ lastGen = "failed" => LastEvent = "error"

\* The first draft had no support and the regenerated answer was emitted.
C29_Witness ==
  /\ genPc = "returned"
  /\ firstSupport = NoSupport
  /\ genCalls = 2
  /\ LastEvent = "answer"

\* C30: the last event before the close is an answer when the final
\* generation call succeeded and an error when it failed, and no event
\* follows an answer event.
C30_FinalEvent ==
  /\ closes > 0 =>
       /\ lastGen = "ok" => LastEvent = "answer"
       /\ lastGen = "failed" => LastEvent = "error"
       /\ lastGen # "none"
  /\ \A x \in DOMAIN events : events[x] = "answer" => x = Len(events)

\* The first draft failed: the stream closed after the error event.
C30_Witness ==
  /\ closes = 1
  /\ genCalls = 1
  /\ lastGen = "failed"
  /\ LastEvent = "error"
  /\ contextChunks > 0

\* ---- retry transport: RoundTrip ----

\* One iteration of the loop: after the first attempt a request with a body
\* is handed to base.RoundTrip and its result returned; otherwise the attempt
\* is made and retried after a network error, 429 or 5xx.
RoundTripAttempt(resp) ==
  /\ rtPc = "loop"
  /\ rtI <= maxRetries
  /\ sent' = Append(sent, resp)
  /\ IF (rtI > 0 /\ hasBody) \/ ~Retryable(resp)
     THEN /\ rtRet' = resp
          /\ rtPc' = "returned"
          /\ UNCHANGED rtI
     ELSE /\ rtI' = rtI + 1
          /\ UNCHANGED <<rtPc, rtRet>>
  /\ UNCHANGED <<hasBody, maxRetries>>
  /\ UNCHANGED outsideRetry

\* The loop ends after MaxRetries + 1 attempts: the last resp is returned.
RoundTripExhausted ==
  /\ rtPc = "loop"
  /\ rtI > maxRetries
  /\ rtRet' = sent[Len(sent)]
  /\ rtPc' = "returned"
  /\ UNCHANGED <<hasBody, maxRetries, rtI, sent>>
  /\ UNCHANGED outsideRetry

InitRetry ==
  /\ SagaInit
  /\ BreakerIdle
  /\ ScoutIdle
  /\ SaveInit
  /\ FusionIdle
  /\ SkylineIdle
  /\ BatcherIdle
  /\ GeneratorIdle
  /\ OpdsIdle
  /\ \E body \in BOOLEAN, retries \in 0..MaxMaxRetries : RetryInit(body, retries)

NextRetry ==
  \/ \E resp \in Outcomes : RoundTripAttempt(resp)
  \/ RoundTripExhausted

SpecRetry == InitRetry /\ [][NextRetry]_retryVars

\* C38: a request with a body is handed to the base transport once only,
\* whatever the first attempt returned; only requests without a body are sent
\* again.
C38_BodySentOnce == hasBody => Len(sent) <= 1

\* ---- OPDS source: FetchNewBooks ----

\* One iteration of the loop: the head of the queue is dropped if its URL is
\* visited; else the page is fetched and, unless the fetch failed, its links
\* are queued.
FetchLoop(ok) ==
  /\ opdsPc = "loop"
  /\ queue # <<>>
  /\ processedPages < maxPages
  /\ LET current == Head(queue)
     IN IF isVisited(visitedURLs, current.url)
        THEN /\ queue' = Tail(queue)
             /\ skipped' = skipped + 1
             /\ UNCHANGED <<visitedURLs, processedPages, fetchLog>>
        ELSE /\ visitedURLs' = visitedURLs \cup {current.url}
             /\ processedPages' = processedPages + 1
             /\ fetchLog' = Append(fetchLog, current.url)
             /\ queue' = IF ok
                         THEN Tail(queue) \o Enqueued(catNext[current.url],
                                                      catSubs[current.url],
                                                      current.depth,
                                                      visitedURLs \cup {current.url})
                         ELSE Tail(queue)
             /\ UNCHANGED skipped
  /\ UNCHANGED <<catNext, catSubs, opdsPc>>
  /\ UNCHANGED outsideOpds

\* The queue is empty or maxPages pages were fetched: FetchNewBooks returns.
FetchReturn ==
  /\ opdsPc = "loop"
  /\ ~(queue # <<>> /\ processedPages < maxPages)
  /\ opdsPc' = "returned"
  /\ UNCHANGED <<catNext, catSubs, queue, visitedURLs, processedPages, fetchLog,
                 skipped>>
  /\ UNCHANGED outsideOpds

InitOpds ==
  /\ SagaInit
  /\ BreakerIdle
  /\ ScoutIdle
  /\ SaveInit
  /\ FusionIdle
  /\ SkylineIdle
  /\ BatcherIdle
  /\ GeneratorIdle
  /\ RetryIdle
  /\ \/ \E nextOf \in [URLs -> 0..MaxURLs], subsOf \in [URLs -> SUBSET URLs] :
          OpdsInit(nextOf, subsOf)
     \/ OpdsInit(PagedNext, [u \in DOMAIN PagedNext |-> {}])

NextOpds ==
  \/ \E ok \in BOOLEAN : FetchLoop(ok)
  \/ FetchReturn

\* The loop runs in one goroutine and every fetch returns (the HTTP client
\* has a timeout), so a step that can be taken is taken.
SpecOpds == InitOpds /\ [][NextOpds]_opdsVars /\ WF_opdsVars(NextOpds)

\* C39: on every catalog, also one whose next and subsection links form
\* cycles, FetchNewBooks returns, and it fetches at most 50 pages and no URL
\* twice.
C39_TraversalTerminates ==
  /\ <>(opdsPc = "returned")
  /\ [](/\ Len(fetchLog) <= maxPages
        /\ \A x, y \in DOMAIN fetchLog : x # y => fetchLog[x] # fetchLog[y])

\* FetchNewBooks returned from a catalog whose two pages link to each other,
\* having fetched each once and dropped a queued duplicate.
C39_Witness ==
  /\ opdsPc = "returned"
  /\ catNext[1] = 2 /\ catNext[2] = 1
  /\ 2 \in catSubs[1]
  /\ fetchLog = <<1, 2>>
  /\ skipped > 0

====
